---- MODULE Spec2Model ----
(***************************************************************************)
(* Verification model of the SIDM2conv conversion tools.                   *)
(*                                                                         *)
(* Core A (tools/prg2sid/p2s.c): the player scanner.  main reads a PRG,     *)
(* Scanners calls the check functions of ScanFunc in order until one       *)
(* reports a match, and main writes the PSID header, the prepend bytes and *)
(* the payload.  Specification P2sSpec.                                    *)
(*                                                                         *)
(* Core B (tools/sf2pack): the 6502 code relocator PackerSimple, the 64 KiB *)
(* memory container C64Memory and the PRG export.  Specification Spec runs *)
(* PackerSimple::Pack on its own; specification Sf2Spec runs the main of   *)
(* sf2pack from the command line to the written PSID file.                 *)
(*                                                                         *)
(* The tools are separate programs; each specification runs one of them    *)
(* and leaves the variables of the others at their idle values.            *)
(*                                                                         *)
(* The 64 KiB array C64Memory::data_ is represented sparsely: a function   *)
(* whose domain is the set of addresses holding a nonzero byte; every      *)
(* other address reads as 0.  The representation is canonical, so two      *)
(* memories are equal exactly when all 65536 bytes agree.  The buffer of   *)
(* p2s is represented the same way.                                        *)
(***************************************************************************)
EXTENDS Integers, Sequences, FiniteSets, TLC

\* ------------------------------------------------------------------------
\* Bounds of the model (not program constants)
\* ------------------------------------------------------------------------

\* longest instruction stream (in instructions) placed at a small driver's top
MaxProg == 2
\* largest driver_code_size of the small driver configurations
MaxSmallSize == 4

\* ------------------------------------------------------------------------
\* Program constants
\* ------------------------------------------------------------------------

DRIVER_CODE_TOP == 3454
DRIVER_CODE_SIZE == 2048
CURRENT_LOWEST_ZP == 2
DefaultAddress == 4096
DefaultZp == 2
\* upper limit of the data-table scan in Pack
ScanLimit == 12288
\* first and last address of the I/O / ROM window that is never relocated
RomLo == 53248
RomHi == 57343
\* size of the address space: unsigned short arithmetic wraps modulo this
AddrSpace == 65536

\* ------------------------------------------------------------------------
\* Integer helpers (C conversions)
\* ------------------------------------------------------------------------

\* conversion of an int to unsigned short
U16(x) == x % AddrSpace

\* conversion of an int to unsigned char
U8(x) == x % 256

Max(S) == CHOOSE x \in S : \A y \in S : y <= x

\* ------------------------------------------------------------------------
\* C64Memory
\* ------------------------------------------------------------------------

\* unsigned char C64Memory::operator[](unsigned short) const / GetByte
GetByte(m, a) == IF a \in DOMAIN m THEN m[a] ELSE 0

\* C64Memory::SetByte / assignment through operator[]
SetByte(m, a, v) ==
    IF v = 0
    THEN [x \in (DOMAIN m) \ {a} |-> m[x]]
    ELSE [x \in (DOMAIN m) \cup {a} |-> IF x = a THEN v ELSE m[x]]

\* C64Memory::GetWord: little-endian word read
GetWord(m, a) == GetByte(m, a) + 256 * GetByte(m, a + 1)

\* C64Memory::SetWord: little-endian word write
SetWord(m, a, v) == SetByte(SetByte(m, a, v % 256), a + 1, (v \div 256) % 256)

\* C64Memory::Clear / the constructor: all bytes zero
ClearedMemory == [x \in {} |-> 0]

\* ------------------------------------------------------------------------
\* opcodes.cpp
\* ------------------------------------------------------------------------

opcode_table == <<
    <<1, "IMP">>, <<2, "IZX">>, <<1, "IMP">>, <<1, "IMP">>, <<1, "IMP">>, <<2, "ZP">>, <<2, "ZP">>, <<1, "IMP">>,
    <<1, "IMP">>, <<2, "IMM">>, <<1, "IMP">>, <<1, "IMP">>, <<1, "IMP">>, <<3, "ABS">>, <<3, "ABS">>, <<1, "IMP">>,
    <<2, "REL">>, <<2, "IZY">>, <<1, "IMP">>, <<1, "IMP">>, <<1, "IMP">>, <<2, "ZPX">>, <<2, "ZPX">>, <<1, "IMP">>,
    <<1, "IMP">>, <<3, "ABY">>, <<1, "IMP">>, <<1, "IMP">>, <<1, "IMP">>, <<3, "ABX">>, <<3, "ABX">>, <<1, "IMP">>,
    <<3, "ABS">>, <<2, "IZX">>, <<1, "IMP">>, <<1, "IMP">>, <<2, "ZP">>, <<2, "ZP">>, <<2, "ZP">>, <<1, "IMP">>,
    <<1, "IMP">>, <<2, "IMM">>, <<1, "IMP">>, <<1, "IMP">>, <<3, "ABS">>, <<3, "ABS">>, <<3, "ABS">>, <<1, "IMP">>,
    <<2, "REL">>, <<2, "IZY">>, <<1, "IMP">>, <<1, "IMP">>, <<1, "IMP">>, <<2, "ZPX">>, <<2, "ZPX">>, <<1, "IMP">>,
    <<1, "IMP">>, <<3, "ABY">>, <<1, "IMP">>, <<1, "IMP">>, <<1, "IMP">>, <<3, "ABX">>, <<3, "ABX">>, <<1, "IMP">>,
    <<1, "IMP">>, <<2, "IZX">>, <<1, "IMP">>, <<1, "IMP">>, <<1, "IMP">>, <<2, "ZP">>, <<2, "ZP">>, <<1, "IMP">>,
    <<1, "IMP">>, <<2, "IMM">>, <<1, "IMP">>, <<1, "IMP">>, <<3, "ABS">>, <<3, "ABS">>, <<3, "ABS">>, <<1, "IMP">>,
    <<2, "REL">>, <<2, "IZY">>, <<1, "IMP">>, <<1, "IMP">>, <<1, "IMP">>, <<2, "ZPX">>, <<2, "ZPX">>, <<1, "IMP">>,
    <<1, "IMP">>, <<3, "ABY">>, <<1, "IMP">>, <<1, "IMP">>, <<1, "IMP">>, <<3, "ABX">>, <<3, "ABX">>, <<1, "IMP">>,
    <<1, "IMP">>, <<2, "IZX">>, <<1, "IMP">>, <<1, "IMP">>, <<1, "IMP">>, <<2, "ZP">>, <<2, "ZP">>, <<1, "IMP">>,
    <<1, "IMP">>, <<2, "IMM">>, <<1, "IMP">>, <<1, "IMP">>, <<3, "IND">>, <<3, "ABS">>, <<3, "ABS">>, <<1, "IMP">>,
    <<2, "REL">>, <<2, "IZY">>, <<1, "IMP">>, <<1, "IMP">>, <<1, "IMP">>, <<2, "ZPX">>, <<2, "ZPX">>, <<1, "IMP">>,
    <<1, "IMP">>, <<3, "ABY">>, <<1, "IMP">>, <<1, "IMP">>, <<1, "IMP">>, <<3, "ABX">>, <<3, "ABX">>, <<1, "IMP">>,
    <<1, "IMP">>, <<2, "IZX">>, <<1, "IMP">>, <<1, "IMP">>, <<2, "ZP">>, <<2, "ZP">>, <<2, "ZP">>, <<1, "IMP">>,
    <<1, "IMP">>, <<1, "IMP">>, <<1, "IMP">>, <<1, "IMP">>, <<3, "ABS">>, <<3, "ABS">>, <<3, "ABS">>, <<1, "IMP">>,
    <<2, "REL">>, <<2, "IZY">>, <<1, "IMP">>, <<1, "IMP">>, <<2, "ZPX">>, <<2, "ZPX">>, <<2, "ZPY">>, <<1, "IMP">>,
    <<1, "IMP">>, <<3, "ABY">>, <<1, "IMP">>, <<1, "IMP">>, <<1, "IMP">>, <<3, "ABX">>, <<1, "IMP">>, <<1, "IMP">>,
    <<2, "IMM">>, <<2, "IZX">>, <<2, "IMM">>, <<1, "IMP">>, <<2, "ZP">>, <<2, "ZP">>, <<2, "ZP">>, <<1, "IMP">>,
    <<1, "IMP">>, <<2, "IMM">>, <<1, "IMP">>, <<1, "IMP">>, <<3, "ABS">>, <<3, "ABS">>, <<3, "ABS">>, <<1, "IMP">>,
    <<2, "REL">>, <<2, "IZY">>, <<1, "IMP">>, <<1, "IMP">>, <<2, "ZPX">>, <<2, "ZPX">>, <<2, "ZPY">>, <<1, "IMP">>,
    <<1, "IMP">>, <<3, "ABY">>, <<1, "IMP">>, <<1, "IMP">>, <<3, "ABX">>, <<3, "ABX">>, <<3, "ABY">>, <<1, "IMP">>,
    <<2, "IMM">>, <<2, "IZX">>, <<1, "IMP">>, <<1, "IMP">>, <<2, "ZP">>, <<2, "ZP">>, <<2, "ZP">>, <<1, "IMP">>,
    <<1, "IMP">>, <<2, "IMM">>, <<1, "IMP">>, <<1, "IMP">>, <<3, "ABS">>, <<3, "ABS">>, <<3, "ABS">>, <<1, "IMP">>,
    <<2, "REL">>, <<2, "IZY">>, <<1, "IMP">>, <<1, "IMP">>, <<1, "IMP">>, <<2, "ZPX">>, <<2, "ZPX">>, <<1, "IMP">>,
    <<1, "IMP">>, <<3, "ABY">>, <<1, "IMP">>, <<1, "IMP">>, <<1, "IMP">>, <<3, "ABX">>, <<3, "ABX">>, <<1, "IMP">>,
    <<2, "IMM">>, <<2, "IZX">>, <<1, "IMP">>, <<1, "IMP">>, <<2, "ZP">>, <<2, "ZP">>, <<2, "ZP">>, <<1, "IMP">>,
    <<1, "IMP">>, <<2, "IMM">>, <<1, "IMP">>, <<1, "IMP">>, <<3, "ABS">>, <<3, "ABS">>, <<3, "ABS">>, <<1, "IMP">>,
    <<2, "REL">>, <<2, "IZY">>, <<1, "IMP">>, <<1, "IMP">>, <<1, "IMP">>, <<2, "ZPX">>, <<2, "ZPX">>, <<1, "IMP">>,
    <<1, "IMP">>, <<3, "ABY">>, <<1, "IMP">>, <<1, "IMP">>, <<1, "IMP">>, <<3, "ABX">>, <<3, "ABX">>, <<1, "IMP">>
>>

\* GetOpcodeSize over a table that lists JMP (ind) with two bytes
GetOpcodeSize_ind2(opcode) == IF opcode = 108 THEN 2 ELSE opcode_table[opcode + 1][1]

\* GetOpcodeSize
GetOpcodeSize(opcode) == opcode_table[opcode + 1][1]

GetOpcodeAddressingMode(opcode) == opcode_table[opcode + 1][2]

RequiresRelocation(mode) == mode \in {"ABS", "ABX", "ABY", "IND"}

RequiresZeroPageAdjustment(mode) == mode \in {"ZP", "ZPX", "ZPY", "IZX", "IZY"}

\* ------------------------------------------------------------------------
\* State
\* ------------------------------------------------------------------------

VARIABLES
    config,        \* PackerSimple::config_ (DriverConfig)
    input_memory,  \* the C64Memory handed to Pack
    memory,        \* Pack's working copy
    pack_pc,       \* position inside Pack / ProcessDriverCode
    address,       \* ProcessDriverCode: cursor of the linear walk
    decoded,       \* history: <<address, opcode>> of every instruction the walk decoded
    walked,        \* history: the working copy as ProcessDriverCode left it
    data_end,      \* Pack: end of the window that is moved
    data_size,     \* Pack: data_end - data_start
    ci,            \* Pack: index of the copy loop
    packed_data,   \* Pack's result (a PRG: sequence of bytes)
    argv,          \* p2s: the command line (argc and the arguments main looks at)
    infile,        \* p2s: the file named by argv[1]
    heap,          \* p2s: the block calloc returned and the memory around it
    globals,       \* p2s: the file-scope variables of p2s.c
    proc,          \* p2s: position inside main, open handles, exit code
    scanners,      \* p2s: the locals x and z of Scanners
    outfile,       \* p2s: the bytes written to the .sid file so far
    calls,         \* history: indices of the ScanFunc entries called, in order
    scan0,         \* history: globals and heap when Scanners was entered
    bad,           \* history: <<check, index>> of every payload access outside [0, fsiz)
    cmdline,       \* sf2pack: argv[0..argc) of main
    sf2_file,      \* sf2pack: the file named by argv[1]
    options,       \* sf2pack: the Options filled by ParseArguments
    sf2main,       \* sf2pack: position inside main and its exit code
    psid,          \* sf2pack: the PSIDFile object (header_ and prg_data_)
    sid_file       \* sf2pack: the file named by argv[2]

packVars == <<config, input_memory, memory, pack_pc, address, decoded, walked,
              data_end, data_size, ci, packed_data>>

p2sVars == <<argv, infile, heap, globals, proc, scanners, outfile, calls, scan0, bad>>

sf2Vars == <<cmdline, sf2_file, options, sf2main, psid, sid_file>>

vars == <<packVars, p2sVars, sf2Vars>>

\* p2s is not running
P2sIdle ==
    /\ argv = <<>>
    /\ infile = <<>>
    /\ heap = <<>>
    /\ globals = <<>>
    /\ proc = [pc |-> "idle"]
    /\ scanners = <<>>
    /\ outfile = <<>>
    /\ calls = <<>>
    /\ scan0 = <<>>
    /\ bad = {}

\* the main of sf2pack is not running
Sf2Idle ==
    /\ cmdline = <<>>
    /\ sf2_file = <<>>
    /\ options = <<>>
    /\ sf2main = [pc |-> "idle"]
    /\ psid = <<>>
    /\ sid_file = <<>>

\* ------------------------------------------------------------------------
\* PackerSimple
\* ------------------------------------------------------------------------

\* GetAddressDelta with the operands of the subtraction exchanged
GetAddressDelta_swapped(c) == U16(c.driver_code_top - c.destination_address)

\* PackerSimple::GetAddressDelta (unsigned short result)
GetAddressDelta(c) == U16(c.destination_address - c.driver_code_top)

\* the $D000-$DFFF test with a strict lower comparison
IsRomAddress_strict(vector) == vector > RomLo /\ vector <= RomHi

\* the $D000-$DFFF test of ProcessDriverCode
IsRomAddress(vector) == vector >= RomLo /\ vector <= RomHi

\* ProcessDriverCode: relocated_vector of an absolute operand
RelocatedVector(c, vector) ==
    IF IsRomAddress(vector) THEN vector ELSE U16(vector + GetAddressDelta(c))

\* zp_relocated without the subtraction of the current base
ZpRelocated_nobase(c, zp) == U8(c.target_lowest_zp + zp)

\* ProcessDriverCode: zp_relocated of a zero page operand
ZpRelocated(c, zp) == U8(c.target_lowest_zp + U8(zp - c.current_lowest_zp))

\* const unsigned short driver_bottom = driver_top + driver_size
DriverBottom(c) == U16(c.driver_code_top + c.driver_code_size)

\* one iteration of the while loop of ProcessDriverCode, as an effect on memory
PatchInstruction(c, m, a) ==
    LET opcode == GetByte(m, a)
        mode   == GetOpcodeAddressingMode(opcode)
        vector == GetWord(m, U16(a + 1))
        reloc  == RelocatedVector(c, vector)
        m1     == IF RequiresRelocation(mode) /\ vector # reloc
                  THEN SetWord(m, U16(a + 1), reloc)
                  ELSE m
    IN  IF RequiresZeroPageAdjustment(mode)
        THEN SetByte(m1, U16(a + 1), ZpRelocated(c, GetByte(m1, U16(a + 1))))
        ELSE m1

\* the two runtime_error throws of ProcessDriverCode
SizeMismatch(opcode) ==
    \/ RequiresRelocation(GetOpcodeAddressingMode(opcode)) /\ GetOpcodeSize(opcode) # 3
    \/ RequiresZeroPageAdjustment(GetOpcodeAddressingMode(opcode)) /\ GetOpcodeSize(opcode) # 2

\* Pack, step 2: the scan for the last nonzero byte below $3000.  The loop
\* visits addr = data_end .. $2FFF upwards and sets data_end = addr + 1 at
\* every nonzero byte, so it ends with the highest such address plus one.
FindDataEnd(m, start) ==
    LET nz == {a \in DOMAIN m : a >= start /\ a < ScanLimit}
    IN  IF nz = {} THEN start ELSE Max(nz) + 1

\* Pack, step 3: "Clear old location", the loop memory[addr] = 0 for
\* addr = driver_code_top .. data_end - 1
ClearRange(m, lo, hi) == [x \in {a \in DOMAIN m : ~(a >= lo /\ a < hi)} |-> m[x]]

\* ExportToPRG that writes the load address high byte first
ExportToPRG_be(m, top_address, bottom_address) ==
    [n \in 1..(bottom_address - top_address + 2) |->
        IF n = 1 THEN (top_address \div 256) % 256
        ELSE IF n = 2 THEN top_address % 256
        ELSE GetByte(m, top_address + n - 3)]

\* C64Memory::ExportToPRG for top_address < bottom_address
ExportToPRG(m, top_address, bottom_address) ==
    [n \in 1..(bottom_address - top_address + 2) |->
        IF n = 1 THEN top_address % 256
        ELSE IF n = 2 THEN (top_address \div 256) % 256
        ELSE GetByte(m, top_address + n - 3)]

\* ------------------------------------------------------------------------
\* Inputs of the packer: driver configurations and memory images
\* ------------------------------------------------------------------------

\* instruction streams are built from these instructions
CoreInstrs == {
    <<173, 0, 14>>,      \* AD 00 0E  LDA $0E00     (ABS)
    <<173, 24, 212>>,    \* AD 18 D4  LDA $D418     (ABS, I/O)
    <<165, 5>>,          \* A5 05     LDA $05       (ZP)
    <<177, 1>>,          \* B1 01     LDA ($01),Y   (IZY, below the zp base)
    <<169, 173>>,        \* A9 AD     LDA #$AD      (IMM)
    <<234>> }            \* EA        NOP           (IMP)

\* further single instructions: every relocated mode, the edges of the I/O window
EdgeInstrs == {
    <<108, 255, 207>>,   \* 6C FF CF  JMP ($CFFF)   (IND, just below the window)
    <<189, 0, 208>>,     \* BD 00 D0  LDA $D000,X   (ABX, first window address)
    <<153, 255, 223>>,   \* 99 FF DF  STA $DFFF,Y   (ABY, last window address)
    <<189, 0, 224>>,     \* BD 00 E0  LDA $E000,X   (ABX, just above the window)
    <<153, 255, 255>>,   \* 99 FF FF  STA $FFFF,Y   (ABY, wraps)
    <<181, 255>>,        \* B5 FF     LDA $FF,X     (ZPX)
    <<182, 2>>,          \* B6 02     LDX $02,Y     (ZPY)
    <<161, 128>>,        \* A1 80     LDA ($80,X)   (IZX)
    <<208, 254>> }       \* D0 FE     BNE *         (REL)

RECURSIVE Streams(_)
\* all sequences of at most n instructions of CoreInstrs, as byte sequences
Streams(n) ==
    IF n = 0 THEN { <<>> }
    ELSE LET shorter == Streams(n - 1)
         IN  shorter \cup { s \o ins : s \in shorter, ins \in CoreInstrs }

Programs == Streams(MaxProg) \cup EdgeInstrs

\* the memory m with the bytes bs stored at a, a+1, ...
Place(m, a, bs) ==
    LET span == {a + n - 1 : n \in 1..Len(bs)}
        nz   == {a + n - 1 : n \in {k \in 1..Len(bs) : bs[k] # 0}}
    IN  [x \in ((DOMAIN m) \ span) \cup nz |->
            IF x \in span THEN bs[x - a + 1] ELSE m[x]]

\* top of the small driver configurations: close below the scan limit
SmallTop == 12280

SmallConfigs ==
    { [driver_code_top |-> SmallTop, driver_code_size |-> sz,
       current_lowest_zp |-> zp[1], target_lowest_zp |-> zp[2],
       destination_address |-> dst] :
         sz \in 3..MaxSmallSize,
         zp \in { <<2, 2>>, <<2, 64>>, <<128, 16>> },
         dst \in { SmallTop, SmallTop + 2, SmallTop - 2, DefaultAddress, 65534 } }

\* the configuration sf2pack's main builds: fixed driver, --address and --zp
ReleaseConfigs ==
    { [driver_code_top |-> DRIVER_CODE_TOP, driver_code_size |-> DRIVER_CODE_SIZE,
       current_lowest_zp |-> CURRENT_LOWEST_ZP, target_lowest_zp |-> zp,
       destination_address |-> dst] :
         zp \in { DefaultZp, 64 }, dst \in { DefaultAddress, DRIVER_CODE_TOP } }

\* a memory image: an instruction stream at the driver's top, optionally a
\* three byte instruction on the last byte of the code region and optionally
\* a data table byte behind the code region
Image(c, prog, tail, table) ==
    LET bottom == c.driver_code_top + c.driver_code_size
        m1 == Place(ClearedMemory, c.driver_code_top, prog)
        m2 == IF tail THEN Place(m1, bottom - 1, <<173, 0, 14>>) ELSE m1
    IN  IF table THEN Place(m2, bottom + 3, <<7>>) ELSE m2

PackInputs ==
    { <<c, Image(c, prog, FALSE, table)>> :
         c \in SmallConfigs, prog \in Programs, table \in BOOLEAN }
    \cup
    { <<c, Image(c, x[1], x[2], x[2])>> :
         c \in ReleaseConfigs,
         x \in { << <<173, 0, 14>>, FALSE >>, << <<173, 0, 14>>, TRUE >>,
                 << <<173, 24, 212>>, FALSE >>, << <<165, 5>>, FALSE >> } }

\* ------------------------------------------------------------------------
\* Pack as a state machine
\* ------------------------------------------------------------------------

PackInit ==
    \E inp \in PackInputs :
        /\ config = inp[1]
        /\ input_memory = inp[2]
        /\ memory = inp[2]              \* Pack: working copy of the memory
        /\ pack_pc = "walk"
        /\ address = inp[1].driver_code_top
        /\ decoded = {}
        /\ walked = ClearedMemory
        /\ data_end = 0
        /\ data_size = 0
        /\ ci = 0
        /\ packed_data = <<>>
        /\ P2sIdle
        /\ Sf2Idle

\* one iteration of while (address < driver_bottom)
WalkStep ==
    /\ pack_pc = "walk"
    /\ address < DriverBottom(config)
    /\ LET opcode == GetByte(memory, address)
       IN  IF SizeMismatch(opcode)
           THEN /\ pack_pc' = "error"
                /\ UNCHANGED <<memory, address, decoded>>
           ELSE /\ memory' = PatchInstruction(config, memory, address)
                /\ address' = U16(address + GetOpcodeSize(opcode))
                /\ decoded' = decoded \cup {<<address, opcode>>}
                /\ pack_pc' = "walk"
    /\ UNCHANGED <<config, input_memory, walked, data_end, data_size, ci, packed_data,
                   p2sVars, sf2Vars>>

\* the loop condition fails: ProcessDriverCode returns
WalkEnd ==
    /\ pack_pc = "walk"
    /\ ~(address < DriverBottom(config))
    /\ pack_pc' = "walked"
    /\ walked' = memory
    /\ UNCHANGED <<config, input_memory, memory, address, decoded,
                   data_end, data_size, ci, packed_data,
                   p2sVars, sf2Vars>>

\* Pack, step 2: find the end of data; enter step 3
FindEnd ==
    /\ pack_pc = "walked"
    /\ LET e == FindDataEnd(memory, DriverBottom(config))
       IN  /\ data_end' = e
           /\ data_size' = e - config.driver_code_top
    /\ ci' = 0
    /\ pack_pc' = IF config.destination_address # config.driver_code_top
                  THEN "copy" ELSE "export"
    /\ UNCHANGED <<config, input_memory, memory, address, decoded, walked, packed_data,
                   p2sVars, sf2Vars>>

\* Pack, step 3: one iteration of the copy loop
CopyStep ==
    /\ pack_pc = "copy"
    /\ ci < data_size
    /\ memory' = SetByte(memory, U16(config.destination_address + ci),
                         GetByte(memory, U16(config.driver_code_top + ci)))
    /\ ci' = ci + 1
    /\ UNCHANGED <<config, input_memory, pack_pc, address, decoded, walked,
                   data_end, data_size, packed_data,
                   p2sVars, sf2Vars>>

\* Pack, step 3: the copy loop is finished; clear the old location
ClearOld ==
    /\ pack_pc = "copy"
    /\ ~(ci < data_size)
    /\ memory' = ClearRange(memory, config.driver_code_top, data_end)
    /\ pack_pc' = "export"
    /\ UNCHANGED <<config, input_memory, address, decoded, walked,
                   data_end, data_size, ci, packed_data,
                   p2sVars, sf2Vars>>

\* Pack, step 4: export as PRG from the destination address
Export ==
    /\ pack_pc = "export"
    /\ LET top_address == config.destination_address
           bottom_address == U16(config.destination_address + data_size)
       IN  IF top_address >= bottom_address
           THEN /\ pack_pc' = "error"
                /\ UNCHANGED packed_data
           ELSE /\ pack_pc' = "done"
                /\ packed_data' = ExportToPRG(memory, top_address, bottom_address)
    /\ UNCHANGED <<config, input_memory, memory, address, decoded, walked,
                   data_end, data_size, ci,
                   p2sVars, sf2Vars>>

PackNext == WalkStep \/ WalkEnd \/ FindEnd \/ CopyStep \/ ClearOld \/ Export

Init == PackInit

Next == PackNext

Spec == Init /\ [][Next]_vars

\* ------------------------------------------------------------------------
\* p2s: header layout, tables and initial values of the file-scope variables
\* ------------------------------------------------------------------------

\* offsets into the PSID header
P_MARKER == 0
P_INITADDR == 10
P_PLAYADDR == 12
P_SIDMODEL == 119

\* the header template; sizeof(psidh) = 0x7c
psidh == <<
    80, 83, 73, 68, 0, 2, 0, 124, 0, 0, 16, 0, 16, 3, 0, 1,
    0, 1, 0, 0, 0, 0, 60, 63, 62, 0, 0, 0, 0, 0, 0, 0,
    0, 0, 0, 0, 0, 0, 0, 0, 0, 0, 0, 0, 0, 0, 0, 0,
    0, 0, 0, 0, 0, 0, 60, 63, 62, 0, 0, 0, 0, 0, 0, 0,
    0, 0, 0, 0, 0, 0, 0, 0, 0, 0, 0, 0, 0, 0, 0, 0,
    0, 0, 0, 0, 0, 0, 49, 57, 63, 63, 32, 60, 63, 62, 0, 0,
    0, 0, 0, 0, 0, 0, 0, 0, 0, 0, 0, 0, 0, 0, 0, 0,
    0, 0, 0, 0, 0, 0, 0, 20, 0, 0, 0, 0 >>

\* unsigned char extrabytes[128], zero-initialised
extrabytes == [n \in 1..128 |-> 0]

\* char ids[30] = "Generic"
ids == "Generic"

\* offset/checkbyte tables of fixfc4stack and fixsklstack
af4 == <<
    <<6, 173>>, <<21, 238>>, <<24, 238>>, <<27, 238>>, <<37, 206>>, <<45, 141>>, <<53, 141>>, <<57, 173>>,
    <<75, 222>>, <<86, 188>>, <<101, 157>>, <<104, 157>>, <<107, 157>>, <<110, 141>>, <<119, 141>>, <<126, 173>>,
    <<131, 157>>, <<134, 254>>, <<140, 173>>, <<147, 173>>, <<152, 157>>, <<155, 254>>, <<161, 173>>, <<178, 157>>,
    <<181, 188>>, <<184, 157>>, <<189, 157>>, <<204, 157>>, <<207, 254>>, <<220, 157>>, <<238, 157>>, <<246, 141>>,
    <<249, 254>>, <<258, 141>>, <<267, 254>>, <<287, 157>>, <<305, 157>>, <<314, 189>>, <<317, 157>>, <<323, 125>>,
    <<326, 157>>, <<337, 172>>, <<343, 157>>, <<346, 157>>, <<353, 157>>, <<356, 189>>, <<361, 189>>, <<368, 142>>,
    <<396, 157>>, <<399, 157>>, <<407, 157>>, <<411, 157>>, <<419, 157>>, <<424, 157>>, <<428, 157>>, <<431, 254>>,
    <<434, 188>>, <<445, 157>>, <<448, 189>>, <<453, 222>>, <<458, 254>>, <<464, 254>>, <<477, 172>>, <<480, 189>>,
    <<485, 189>>, <<490, 157>>, <<493, 189>>, <<503, 141>>, <<509, 141>>, <<515, 141>>, <<522, 173>>, <<529, 173>>,
    <<543, 157>>, <<549, 141>>, <<552, 189>>, <<557, 222>>, <<562, 254>>, <<567, 254>>, <<570, 189>>, <<573, 221>>,
    <<578, 157>>, <<581, 222>>, <<584, 222>>, <<587, 189>>, <<598, 141>>, <<607, 125>>, <<611, 206>>, <<617, 110>>,
    <<623, 141>>, <<629, 141>>, <<635, 141>>, <<638, 189>>, <<647, 173>>, <<650, 237>>, <<653, 141>>, <<656, 173>>,
    <<659, 237>>, <<662, 141>>, <<668, 189>>, <<675, 188>>, <<682, 173>>, <<685, 109>>, <<688, 141>>, <<691, 173>>,
    <<694, 109>>, <<697, 141>>, <<703, 172>>, <<706, 173>>, <<712, 173>>, <<720, 172>>, <<723, 189>>, <<727, 253>>,
    <<734, 189>>, <<745, 173>>, <<749, 189>>, <<752, 237>>, <<755, 157>>, <<761, 189>>, <<764, 237>>, <<767, 157>>,
    <<776, 173>>, <<780, 189>>, <<783, 109>>, <<786, 157>>, <<792, 189>>, <<795, 109>>, <<798, 157>>, <<804, 173>>,
    <<820, 221>>, <<833, 221>>, <<842, 141>>, <<848, 173>>, <<853, 141>>, <<856, 189>>, <<861, 189>>, <<865, 237>>,
    <<868, 157>>, <<871, 189>>, <<876, 157>>, <<885, 157>>, <<890, 189>>, <<894, 109>>, <<897, 157>>, <<900, 189>>,
    <<905, 157>>, <<914, 157>>, <<922, 189>>, <<929, 189>>, <<943, 172>>, <<946, 189>>, <<955, 189>>, <<963, 173>>,
    <<972, 189>>, <<987, 157>>, <<990, 140>>, <<993, 173>>, <<1002, 142>>, <<1015, 189>>, <<1053, 141>>, <<1056, 174>>,
    <<1060, 45>>, <<1067, 109>>, <<1092, 189>>, <<1103, 205>>, <<1112, 157>>, <<1118, 172>>, <<1121, 173>>, <<1128, 173>>,
    <<1160, 189>>, <<1174, 153>>, <<1180, 141>>, <<1183, 173>>, <<1192, 189>>, <<1196, 109>>, <<1202, 172>>, <<1205, 173>>,
    <<1222, 173>>, <<1231, 172>>, <<1234, 189>>, <<1255, 157>>, <<1261, 189>>, <<1267, 189>>, <<1273, 189>>, <<1278, 157>>,
    <<1281, 173>>, <<1288, 222>>, <<1295, 157>>, <<1300, 189>>, <<1311, 189>>, <<1318, 172>>, <<1335, 172>>, <<1338, 189>>,
    <<1351, 173>>, <<1367, 173>> >>

af40 == <<
    <<1447, 141>>, <<1796, 157>>, <<1804, 141>>, <<1809, 141>>, <<1812, 141>>, <<1815, 141>>, <<1820, 157>>, <<1823, 157>>,
    <<1826, 157>>, <<1829, 157>>, <<1835, 141>> >>

af41 == <<
    <<1385, 157>>, <<1393, 141>>, <<1398, 141>>, <<1401, 141>>, <<1404, 141>>, <<1409, 157>>, <<1412, 157>>, <<1415, 157>>,
    <<1418, 157>>, <<1424, 141>>, <<1447, 141>> >>

sld0 == <<
    <<52, 157>>, <<55, 157>>, <<58, 157>>, <<61, 157>>, <<64, 157>>, <<163, 141>>, <<184, 141>>, <<205, 141>>,
    <<380, 173>>, <<386, 173>>, <<392, 173>>, <<979, 157>>, <<986, 125>>, <<989, 157>>, <<999, 157>>, <<1002, 189>>,
    <<1006, 125>>, <<1009, 157>>, <<1048, 157>>, <<1056, 157>>, <<1078, 185>>, <<1085, 190>>, <<1110, 153>>, <<1114, 185>>,
    <<1117, 217>>, <<1125, 121>>, <<1138, 249>> >>

\* the order in which Scanners calls the check functions
ScanFunc == <<
    "Chk_FC", "Chk_FCAlt", "Chk_MusAss", "Chk_MusMix",
    "Chk_GMC", "Chk_Bappalander", "Chk_TrkPl3", "Chk_Groovy",
    "Chk_Parsec", "Chk_Sosperec", "Chk_SoedeSoft", "Chk_Prosonix1",
    "Chk_4JMPS", "Chk_Heathcliff", "Chk_3JMPs1", "Chk_ArneAFL",
    "Chk_ArneSndMk", "Chk_Digitalizer", "Chk_Soundmon", "Chk_AMP2",
    "Chk_FC3x", "Chk_MoN_JTS", "Chk_3JMPs2", "Chk_JOv2",
    "Chk_2JMPs", "Chk_LaxityV2", "Chk_HubbardV5", "Chk_HubbardV4",
    "Chk_HubbardV3", "Chk_HubbardV2", "Chk_HubbardV1", "Chk_MikeLSD",
    "Chk_Comptech", "Chk_SoundMaker", "Chk_Electrosound", "Chk_PollyTracker",
    "Chk_MasterComp", "Chk_Ubik", "Chk_AMP1", "Chk_Boogaloo",
    "Chk_Bjerregaard1", "Chk_Bjerregaard2", "Chk_ReflexTrk", "Chk_FAME",
    "Chk_20CC", "Chk_CTExe", "Chk_System6581", "Chk_MattGray",
    "Chk_PowerMus", "Chk_GRGTiny2", "Chk_GRGTiny4", "Chk_Yip",
    "Chk_TFX1", "Chk_Griff1", "Chk_Griff2", "Chk_Ariston",
    "Chk_Winterberg", "Chk_Jensen", "Chk_MegaVision", "Chk_SkylineTech_Danne",
    "Chk_Deflemask", "Chk_Polyanna", "Chk_SidFactory", "Chk_Mssiah",
    "Chk_GoatMultispeed", "Chk_FlexSid", "Chk_StarBars", "Chk_Whittaker",
    "Chk_QuantumSndTrk" >>

\* ------------------------------------------------------------------------
\* p2s: access to the payload through the pointer p
\* ------------------------------------------------------------------------

Min(S) == CHOOSE x \in S : \A y \in S : x <= y

RECURSIVE BitAnd(_, _)
\* the C operator & on non-negative integers
BitAnd(a, b) ==
    IF a = 0 \/ b = 0 THEN 0
    ELSE (a % 2) * (b % 2) + 2 * BitAnd(a \div 2, b \div 2)

\* p[n]; h.bytes holds the nonzero bytes at their offset from realp
Peek(g, h, n) == IF g.p + n \in DOMAIN h.bytes THEN h.bytes[g.p + n] ELSE 0

\* p[n] = v, stored as unsigned char
Poke(g, h, n, v) ==
    LET a == g.p + n
        b == v % 256
    IN  [h EXCEPT !.bytes =
            IF b = 0
            THEN [y \in DOMAIN @ \ {a} |-> @[y]]
            ELSE [y \in DOMAIN @ \cup {a} |-> IF y = a THEN b ELSE @[y]]]

RECURSIVE PokeAll(_, _, _, _)
\* p[n] = vs[1]; p[n+1] = vs[2]; ...
PokeAll(g, h, n, vs) ==
    IF vs = <<>> THEN h
    ELSE PokeAll(g, Poke(g, h, n, Head(vs)), n + 1, Tail(vs))

\* One comparison of a signature: <<offset, mask, value>> stands for
\* (read(p + base + offset) & mask) == value, where the read is a byte, an
\* unsigned short or an unsigned int and mask and value list its bytes from
\* the lowest address up (the byte order of the x86 build).
ByteIs(off, v) == <<off, <<255>>, <<v>>>>

WordIs(off, v) == <<off, <<255, 255>>, v>>

DwordIs(off, v) == <<off, <<255, 255, 255, 255>>, v>>

DwordMaskIs(off, mask, v) == <<off, mask, v>>

TestPasses(g, h, base, t) ==
    \A b \in 1..Len(t[3]) :
        LET v == Peek(g, h, base + t[1] + b - 1)
        IN  (IF t[2][b] = 255 THEN v ELSE BitAnd(v, t[2][b])) = t[3][b]

\* A signature is a sequence of comparisons joined by &&: they are evaluated
\* left to right and the first failing one ends the evaluation.
FirstFail(g, h, base, chain) ==
    LET F == {n \in 1..Len(chain) : ~TestPasses(g, h, base, chain[n])}
    IN  IF F = {} THEN 0 ELSE Min(F)

ChainMatch(g, h, base, chain) == FirstFail(g, h, base, chain) = 0

\* the payload indices the evaluation of the signature reads
ChainReads(g, h, base, chain) ==
    LET ff == FirstFail(g, h, base, chain)
        last == IF ff = 0 THEN Len(chain) ELSE ff
    IN  UNION {{base + chain[n][1] + b : b \in 0..(Len(chain[n][3]) - 1)} : n \in 1..last}

\* what a check function hands back: the globals, the memory, its return
\* value and the payload indices it accessed
Result(g, h, ret, acc) == [g |-> g, h |-> h, ret |-> ret, acc |-> acc]

\* ------------------------------------------------------------------------
\* p2s: fixfc4stack, AdjFC and the FutureComposer checks
\* ------------------------------------------------------------------------

\* index of the first entry of tab whose checkbyte differs (0: none);
\* buffer = p + 2
TableMiss(g, h, tab) ==
    LET F == {n \in 1..Len(tab) : Peek(g, h, 2 + tab[n][1]) # tab[n][2]}
    IN  IF F = {} THEN 0 ELSE Min(F)

\* the indices read by the comparison loop over tab
TableReads(g, h, tab) ==
    LET m == TableMiss(g, h, tab)
    IN  {2 + tab[n][1] : n \in 1..(IF m = 0 THEN Len(tab) ELSE m)}

fixfc4stack(g, h, lenbuff) ==
    IF lenbuff < 1536 THEN [h |-> h, ret |-> -1, acc |-> {}]
    ELSE
    LET m4 == TableMiss(g, h, af4)
        r4 == TableReads(g, h, af4)
    IN  IF m4 # 0 THEN [h |-> h, ret |-> -1, acc |-> r4]
        ELSE
        LET m0 == TableMiss(g, h, af40)
            m1 == TableMiss(g, h, af41)
            \* z after the loop "determine subversion"; Zyron's hack: a
            \* mismatch at the last entry of af41 still counts as found
            z  == IF m0 = 0 THEN 0
                  ELSE IF m1 = 0 \/ m1 = Len(af41) THEN 1 ELSE 2
            rz == TableReads(g, h, af40)
                  \cup (IF m0 # 0 THEN TableReads(g, h, af41) ELSE {})
        IN  IF z = 2 THEN [h |-> h, ret |-> -1, acc |-> r4 \cup rz]
            ELSE
            LET af == IF z = 0 THEN af40 ELSE SubSeq(af41, 1, Len(af41) - 1)
                \* now patch lda $0100 -> lda $0200
                targets == {2 + af4[n][1] + 2 : n \in 1..Len(af4)}
                           \cup {2 + af[n][1] + 2 : n \in 1..Len(af)}
                hits == {t \in targets : Peek(g, h, t) = 1}
                patched == [y \in DOMAIN h.bytes \cup {g.p + t : t \in hits} |->
                               IF y \in {g.p + t : t \in hits} THEN 2 ELSE h.bytes[y]]
            IN  [h |-> [h EXCEPT !.bytes = patched],
                 ret |-> z + (IF hits # {} THEN 256 ELSE 0),
                 acc |-> r4 \cup rz \cup targets]

AdjFC(g, h) ==
    LET chain == <<ByteIs(72, 32), ByteIs(73, 208)>>
    IN  IF ChainMatch(g, h, 0, chain)
        THEN [h |-> PokeAll(g, h, 71, <<234, 234, 234>>),
              acc |-> {71, 72, 73}]
        ELSE [h |-> h, acc |-> ChainReads(g, h, 0, chain)]

Chk_FC(g, h) ==
    IF g.fsiz < 512 THEN Result(g, h, 0, {})
    ELSE
    LET chain == <<ByteIs(2, 76), ByteIs(8, 173), ByteIs(15, 201),
                   DwordMaskIs(11, <<255, 240, 255, 255>>, <<201, 0, 240, 7>>)>>
        reads == ChainReads(g, h, 0, chain)
    IN  IF ~ChainMatch(g, h, 0, chain) THEN Result(g, h, 0, reads)
        ELSE
        LET adj == AdjFC(g, h)
            fix == fixfc4stack(g, adj.h, g.fsiz - 2)
            name == "FutureComposer"
                    \o (IF fix.ret # -1
                        THEN " 4." \o (IF fix.ret % 2 = 1 THEN "1" ELSE "0")
                             \o (IF fix.ret >= 256 THEN " (fixed)" ELSE "")
                        ELSE "")
        IN  Result([g EXCEPT !.playaddr = g.initaddr + 6, !.ids = name],
                   fix.h, 1, reads \cup adj.acc \cup fix.acc)

Chk_FCAlt(g, h) ==
    IF g.fsiz < 512 THEN Result(g, h, 0, {})
    ELSE
    LET chain == <<ByteIs(2, 76), ByteIs(3, 8), ByteIs(44, 238),
                   ByteIs(45, 66), ByteIs(47, 238), ByteIs(48, 67)>>
        reads == ChainReads(g, h, 0, chain)
    IN  IF ~ChainMatch(g, h, 0, chain) THEN Result(g, h, 0, reads)
        ELSE
        LET adj == AdjFC(g, h)
        IN  Result([g EXCEPT !.playaddr = g.initaddr + 42,
                             !.ids = "FutureComposer (altered)"],
                   adj.h, 1, reads \cup adj.acc)

\* ------------------------------------------------------------------------
\* p2s: further check functions
\* ------------------------------------------------------------------------

AdjustJ(xx, la) == xx + 2 - la

CheckJ(xx, fs) == (xx < 0) \/ (xx > (fs - 1))

\* the default entry with the play address at the init address
DefaultEntry_sameplay(g) == [g EXCEPT !.initaddr = g.loadaddr, !.playaddr = g.loadaddr]

\* initaddr = loadaddr; playaddr = initaddr + 3
DefaultEntry(g) == [g EXCEPT !.initaddr = g.loadaddr, !.playaddr = g.loadaddr + 3]

\* Chk_HubbardV4, last part: i>=6 plants two JMPs at the start of the payload
Chk_HubbardV4_Patch(g, h, i, initaddr, playaddr, acc) ==
    IF i >= 6
    THEN Result([DefaultEntry(g) EXCEPT !.ids = "Hubbard v4"],
                PokeAll(g, h, 2, <<76, initaddr % 256, initaddr \div 256,
                                   76, playaddr % 256, playaddr \div 256>>),
                1, acc \cup 2..7)
    ELSE Result([g EXCEPT !.initaddr = initaddr, !.playaddr = playaddr,
                          !.ids = "Hubbard v4"],
                h, 1, acc)

\* Chk_HubbardV4, the loop "init": it continues from the k the play loop left
Chk_HubbardV4_Init(g, h, i, j, kp, acc) ==
    LET isig == <<ByteIs(0, 170), ByteIs(1, 189), ByteIs(6, 189),
                  ByteIs(4, 133), ByteIs(9, 133), ByteIs(24, 162)>>
        KI == {n \in kp..256 : ChainMatch(g, h, j + n, isig)}
    IN  IF KI = {}
        THEN \* if(k==0x101)
             Result(DefaultEntry(g), h, 0,
                    acc \cup UNION {ChainReads(g, h, j + n, isig) : n \in kp..256})
        ELSE Chk_HubbardV4_Patch(g, h, i,
                 g.loadaddr + j + Min(KI) - 2, g.loadaddr + j + kp - 2,
                 acc \cup UNION {ChainReads(g, h, j + n, isig) : n \in kp..Min(KI)})

\* the condition of the loop "play addr" at payload index a
Chk_HubbardV4_PlayAt(g, h, a) ==
    /\ Peek(g, h, a) = 173
    /\ Peek(g, h, a + 3) = 208
    /\ \/ Peek(g, h, a + 5) = 238 /\ Peek(g, h, a + 8) = 238
       \/ Peek(g, h, a + 5) = 230 /\ Peek(g, h, a + 7) = 230

\* the indices that condition reads
Chk_HubbardV4_PlayReads(g, h, a) ==
    {a}
    \cup (IF Peek(g, h, a) = 173 THEN {a + 3} ELSE {})
    \cup (IF Peek(g, h, a) = 173 /\ Peek(g, h, a + 3) = 208
          THEN {a + 5}
               \cup (IF Peek(g, h, a + 5) = 238 THEN {a + 8} ELSE {})
               \cup (IF Peek(g, h, a + 5) = 230 THEN {a + 7} ELSE {})
          ELSE {})

\* Chk_HubbardV4, the loop "play addr" over p[j+k], k = 0..0x100
Chk_HubbardV4_Play(g, h, i, j, acc) ==
    LET KP == {n \in 0..256 : Chk_HubbardV4_PlayAt(g, h, j + n)}
    IN  IF KP = {}
        THEN \* k is 0x101: the init loop does not run
             Result(DefaultEntry(g), h, 0,
                    acc \cup UNION {Chk_HubbardV4_PlayReads(g, h, j + n) : n \in 0..256})
        ELSE Chk_HubbardV4_Init(g, h, i, j, Min(KP),
                 acc \cup UNION {Chk_HubbardV4_PlayReads(g, h, j + n) : n \in 0..Min(KP)})

\* Chk_HubbardV4, if(i>0): the pointer behind the signature
Chk_HubbardV4_Pointer(g, h, i, acc) ==
    LET j0 == AdjustJ(Peek(g, h, i + 3) + 256 * Peek(g, h, i + 4), g.loadaddr)
    IN  IF CheckJ(j0, g.fsiz) THEN Result(g, h, 0, acc \cup {i + 3, i + 4})
        ELSE Chk_HubbardV4_Play(g, h, i, j0 - 240, acc \cup {i + 3, i + 4})

Chk_HubbardV4(g, h) ==
    IF g.fsiz < 1792 THEN Result(g, h, 0, {})
    ELSE
    LET sig == <<ByteIs(0, 162), ByteIs(1, 2), ByteIs(2, 206),
                 ByteIs(5, 16), ByteIs(6, 6), ByteIs(7, 173),
                 ByteIs(43, 48), ByteIs(45, 76), ByteIs(48, 76)>>
        K  == {n \in 0..256 : ChainMatch(g, h, n, sig)}
        r1 == UNION {ChainReads(g, h, n, sig) :
                        n \in 0..(IF K = {} THEN 256 ELSE Min(K))}
    IN  \* i stays 0 when the signature is absent or sits at k = 0
        IF K = {} \/ Min(K) = 0 THEN Result(g, h, 0, r1)
        ELSE Chk_HubbardV4_Pointer(g, h, Min(K), r1)

Chk_AMP1(g, h) ==
    IF g.fsiz < 1536 THEN Result(g, h, 0, {})
    ELSE
    LET sig == <<DwordIs(0, <<224, 21, 176, 11>>), ByteIs(4, 173), ByteIs(7, 61),
                 ByteIs(10, 240)>>
        K   == {n \in 768..1023 : ChainMatch(g, h, n, sig)}
        \* every index of this function lies in this range
        acc == 760..1033
    IN  IF K = {} THEN Result(g, h, 0, acc)
        ELSE
        LET k0 == Min(K)
            \* while(j>0&&p[playaddr]!=0x60): at most 8 steps back
            D  == {d \in 0..7 : Peek(g, h, k0 - d) = 96}
        IN  IF D = {} THEN Result([g EXCEPT !.playaddr = k0 - 8], h, 0, acc)
            ELSE
            LET K1 == {n \in k0..1023 : Peek(g, h, n) = 96 /\ Peek(g, h, n + 1) = 169}
            IN  IF K1 = {}
                THEN Result([g EXCEPT !.playaddr = g.initaddr + 3], h, 0, acc)
                ELSE Result([g EXCEPT !.playaddr = (k0 - Min(D)) + 1 + g.loadaddr - 2,
                                      !.initaddr = (Min(K1) + 1) + g.loadaddr - 2,
                                      !.ids = "AMP 1.x"],
                            h, 1, acc)

Chk_ReflexTrk(g, h) ==
    IF ~((g.fsiz + g.loadaddr > 50432) /\ (g.fsiz + g.loadaddr < 53248))
    THEN Result(g, h, 0, {})
    ELSE
    LET base  == 49152 - g.loadaddr + 2
        chain == <<DwordIs(0, <<76, 44, 192, 76>>), WordIs(4, <<22, 192>>), DwordIs(10, <<1, 32, 44, 192>>)>>
        reads == ChainReads(g, h, base, chain)
    IN  IF ~ChainMatch(g, h, base, chain) THEN Result(g, h, 0, reads)
        ELSE Result([g EXCEPT !.initaddr = 49158, !.playaddr = 0,
                              !.psidh[P_MARKER + 1] = 82,       \* 'R'
                              !.ids = "ReflexTracker"],
                    h, 1, reads)

Chk_FAME(g, h) ==
    IF g.fsiz < 768 THEN Result(g, h, 0, {})
    ELSE
    LET \* every index of this function lies in this range
        acc == 0..531
        sig1 == <<ByteIs(0, 170), ByteIs(1, 189), ByteIs(4, 141),
                  ByteIs(53, 76), ByteIs(56, 162),
                  DwordIs(7, <<138, 10, 133, 80>>), DwordIs(11, <<10, 24, 101, 80>>)>>
        K1 == {n \in 0..127 : ChainMatch(g, h, n, sig1)}
        g1 == IF K1 = {} THEN g
              ELSE [g EXCEPT !.initaddr = Min(K1) + g.loadaddr - 2,
                             !.playaddr = Min(K1) + g.loadaddr - 2 + 56]
    IN  IF K1 # {} /\ Min(K1) > 0 THEN Result([g1 EXCEPT !.ids = "FAME v1"], h, 1, acc)
        ELSE
        LET KA == {n \in 0..254 : TestPasses(g, h, n, DwordIs(0, <<168, 162, 89, 169>>))}
            sig2 == <<DwordIs(0, <<200, 152, 24, 125>>), ByteIs(14, 76), ByteIs(17, 76),
                      ByteIs(20, 162)>>
            KB == IF KA = {} THEN {}
                  ELSE {n \in Min(KA)..511 : ChainMatch(g, h, n, sig2)}
            g2 == IF KB = {} THEN g1
                  ELSE [g1 EXCEPT !.initaddr = Min(KA) + g.loadaddr - 2,
                                  !.playaddr = Min(KB) + g.loadaddr - 2 + 20]
        IN  IF KB # {} /\ Min(KA) > 0 THEN Result([g2 EXCEPT !.ids = "FAME v2"], h, 1, acc)
            ELSE
            LET sig3 == <<ByteIs(2, 76), ByteIs(9, 141), DwordIs(5, <<162, 89, 169, 0>>)>>
            IN  IF ChainMatch(g, h, 0, sig3)
                THEN Result([g2 EXCEPT !.initaddr = g.loadaddr + 3,
                                       !.playaddr = g.loadaddr + 0,
                                       !.ids = "FAME v3"],
                            h, 1, acc)
                ELSE Result(g2, h, 0, acc)

\* ------------------------------------------------------------------------
\* p2s: Chk_Soundmon
\* ------------------------------------------------------------------------

P_TIMING == 21
P_FREEPAGE == 120
P_FREEPMAX == 121

aPatchSndmon == <<169, 1, 141, 15, 192, 169, 0, 141, 198, 2, 96>>

aPatchRckmon == <<169, 1, 141, 15, 192, 76, 18, 192>>

\* the payload index of the C64 address a: a-loadaddr+2
Idx(g, a) == a - g.loadaddr + 2

\* the free-page fields with psidh[P_FREEPMAX]=loadaddr>>8
FreePages_whole(g) ==
    [g EXCEPT !.psidh[P_FREEPAGE + 1] = 8,
              !.psidh[P_FREEPMAX + 1] = (g.loadaddr \div 256) % 256]

\* psidh[P_FREEPAGE]=8; psidh[P_FREEPMAX]=(loadaddr>>8)-8, unsigned chars
FreePages(g) ==
    [g EXCEPT !.psidh[P_FREEPAGE + 1] = 8,
              !.psidh[P_FREEPMAX + 1] = ((g.loadaddr \div 256) - 8) % 256]

\* psidh[P_MARKER]='R' and the two free-page fields
RsidPages(g) == [FreePages(g) EXCEPT !.psidh[P_MARKER + 1] = 82]

\* memmove(p+j,patch,sizeof(patch)) with j=initaddr-loadaddr+2
PatchAt(g, h, a, patch) == PokeAll(g, h, Idx(g, a), patch)

\* the indices memmove writes
PatchIdx(g, a, patch) == {Idx(g, a) + n : n \in 0..(Len(patch) - 1)}

\* the branch c000/c020 of Chk_Soundmon, its signature matched
Soundmon_c020(g, h, acc) ==
    LET k3h == <<DwordIs(Idx(g, 49193), <<32, 225, 203, 173>>)>>
        k2  == <<DwordIs(Idx(g, 49193), <<32, 160, 128, 173>>)>>
        rd  == acc \cup ChainReads(g, h, 0, k3h)
    IN  IF ChainMatch(g, h, 0, k3h)
        THEN Result([RsidPages(g) EXCEPT !.initaddr = 52784, !.playaddr = 0,
                                         !.ids = "DUSAT/RockMon" \o "3h"],
                    h, 1, rd)
        ELSE IF ChainMatch(g, h, 0, k2)
        THEN Result([RsidPages(g) EXCEPT !.initaddr = 49152, !.playaddr = 0,
                                         !.ids = "DUSAT/RockMon" \o "2"],
                    PatchAt(g, h, 49152, aPatchRckmon), 1,
                    rd \cup PatchIdx(g, 49152, aPatchRckmon))
        ELSE Result([FreePages(g) EXCEPT !.initaddr = 49152, !.playaddr = 49184,
                                         !.psidh[P_TIMING + 1] = 1,
                                         !.ids = "SoundMonitor"],
                    Poke(g, PatchAt(g, h, 49152, aPatchSndmon), Idx(g, 49201), 96), 1,
                    rd \cup PatchIdx(g, 49152, aPatchSndmon) \cup {Idx(g, 49201)})

\* a branch that patches the entry with aPatchRckmon and names the player
Soundmon_Rckmon(g, h, acc, name) ==
    Result([RsidPages(g) EXCEPT !.initaddr = 49152, !.playaddr = 0, !.ids = name],
           PatchAt(g, h, 49152, aPatchRckmon), 1,
           acc \cup PatchIdx(g, 49152, aPatchRckmon))

\* the branches after c000/c020, tried in the order of the source; acc holds
\* the indices read so far
Soundmon_rest(g, h, acc) ==
    LET head == DwordIs(Idx(g, 49152), <<76, 18, 192, 76>>)
        t2  == <<head, DwordIs(Idx(g, 49181), <<162, 0, 142, 14>>)>>
        t2a == <<DwordIs(Idx(g, 40912), <<169, 54, 133, 1>>), DwordIs(Idx(g, 40923), <<159, 169, 159, 141>>)>>
        t2b == <<DwordIs(Idx(g, 40704), <<173, 192, 2, 141>>), DwordIs(Idx(g, 40708), <<10, 159, 32, 117>>)>>
        t3  == <<head, DwordIs(Idx(g, 49184), <<149, 2, 169, 76>>)>>
        t4  == <<head, DwordIs(Idx(g, 49181), <<32, 0, 155, 88>>), DwordIs(Idx(g, 49196), <<32, 160, 155, 173>>)>>
        t5  == <<head, DwordIs(Idx(g, 49181), <<32, 0, 155, 88>>), DwordIs(Idx(g, 49196), <<32, 120, 196, 173>>)>>
        t6  == <<head, DwordIs(Idx(g, 49189), <<212, 141, 20, 3>>), DwordIs(Idx(g, 52189), <<32, 0, 159, 173>>)>>
        m2  == ChainMatch(g, h, 0, t2)
        r2  == acc \cup ChainReads(g, h, 0, t2)
        r2a == r2 \cup ChainReads(g, h, 0, t2a)
        r2b == r2a \cup ChainReads(g, h, 0, t2b)
        r3  == (IF m2 THEN r2b ELSE r2) \cup ChainReads(g, h, 0, t3)
        r4  == r3 \cup ChainReads(g, h, 0, t4)
        r5  == r4 \cup ChainReads(g, h, 0, t5)
        r6  == r5 \cup ChainReads(g, h, 0, t6)
    IN  IF m2 /\ ChainMatch(g, h, 0, t2a)
        THEN Result([RsidPages(g) EXCEPT !.initaddr = 40912, !.playaddr = 0,
                                         !.ids = "DUSAT/RockMon" \o "4"],
                    PokeAll(g, h, Idx(g, 40929), <<32, 18, 192>>), 1,
                    r2a \cup {Idx(g, 40929) + n : n \in 0..2})
        ELSE IF m2 /\ ChainMatch(g, h, 0, t2b)
        THEN Soundmon_Rckmon(g, h, r2b, "DUSAT/RockMon" \o "3")
        ELSE IF ChainMatch(g, h, 0, t3)
        THEN Soundmon_Rckmon(g, h, r3, "DUSAT/RockMon" \o "5")
        ELSE IF ChainMatch(g, h, 0, t4)
        THEN Soundmon_Rckmon(g, h, r4, "MusicMaster 1.3/BB")
        ELSE IF ChainMatch(g, h, 0, t5)
        THEN Soundmon_Rckmon(g, h, r5, "BeatBox/KarlXII")
        ELSE IF ChainMatch(g, h, 0, t6)
        THEN Soundmon_Rckmon(g, h, r6, "Digitronix")
        ELSE Result(g, h, 0, r6)

\* (fsiz+loadaddr>0xcb00) && (fsiz>0x2b00) && (loadaddr<=0xa000)
SoundmonSize(g) == g.fsiz + g.loadaddr > 51968 /\ g.fsiz > 11008 /\ g.loadaddr <= 40960

Chk_Soundmon(g, h) ==
    IF ~SoundmonSize(g) THEN Result(g, h, 0, {})
    ELSE
    LET t1 == <<DwordIs(Idx(g, 49152), <<76, 18, 192, 76>>), DwordIs(Idx(g, 49184), <<165, 1, 141, 197>>)>>
        r1 == ChainReads(g, h, 0, t1)
    IN  IF ChainMatch(g, h, 0, t1) THEN Soundmon_c020(g, h, r1)
        ELSE Soundmon_rest(g, h, r1)

\* ------------------------------------------------------------------------
\* p2s: the checks that prepend bytes: Chk_Mssiah, Chk_MusAss, Chk_20CC
\* ------------------------------------------------------------------------

P_SIDVER == 5
P_STEREOAD == 122

aPatchMssiah == <<
    120, 169, 53, 133, 1, 32, 28, 95, 32, 243, 94, 169, 0, 141, 14, 220,
    141, 15, 220, 141, 25, 208, 141, 26, 208, 169, 127, 141, 13, 220, 169, 129,
    141, 13, 220, 169, 148, 141, 254, 255, 169, 95, 141, 255, 255, 169, 164, 141,
    250, 255, 169, 95, 141, 251, 255, 169, 246, 44, 90, 113, 48, 2, 169, 172,
    141, 4, 220, 169, 7, 141, 5, 220, 169, 17, 141, 14, 220, 169, 27, 141,
    17, 208, 88, 32, 149, 94, 96, 0, 0, 0, 0, 0 >>

aPatchDblTrk == <<
    169, 99, 141, 4, 220, 169, 38, 141, 5, 220, 169, 0, 141, 235, 15, 76,
    72, 16, 169, 0, 41, 1, 170, 238, 235, 15, 189, 251, 15, 141, 249, 15,
    76, 33, 16, 33, 0, 0, 0, 0 >>

\* the C operator | on non-negative integers
BitOr(a, b) == a + b - BitAnd(a, b)

RECURSIVE PokeEach(_, _, _)
\* p[ws[1][1]] = ws[1][2]; p[ws[2][1]] = ws[2][2]; ...
PokeEach(g, h, ws) ==
    IF ws = <<>> THEN h
    ELSE PokeEach(g, Poke(g, h, Head(ws)[1], Head(ws)[2]), Tail(ws))

\* extrabytes[at], extrabytes[at+1], ... = vs, stored as unsigned chars
\* (at is the C index)
SetExtra(eb, at, vs) ==
    [n \in 1..Len(eb) |-> IF n - 1 >= at /\ n - 1 < at + Len(vs) THEN vs[n - at] % 256 ELSE eb[n]]

\* extrabytes[0]=a&0xff; extrabytes[1]=a>>8
AddrBytes(a) == <<a % 256, (a \div 256) % 256>>

\* the stores of Chk_Mssiah into the payload, p already advanced
MssiahPokes ==
    <<<<682, 96>>, <<781, 162>>,
      <<1283, 234>>, <<1284, 234>>, <<1285, 234>>,
      <<1289, 234>>, <<1290, 234>>, <<1291, 234>>,
      <<650, 91>>, <<2425, 91>>, <<2431, 91>>, <<4015, 91>>,
      <<4021, 91>>, <<4326, 91>>, <<4335, 91>>>>

\* Chk_Mssiah with extra=sizeof(aPatchMssiah)
Mssiah_extra_short == Len(aPatchMssiah)

\* extra=2+sizeof(aPatchMssiah)
Mssiah_extra == 2 + Len(aPatchMssiah)

Chk_Mssiah(g, h) ==
    IF g.fsiz < 20480 THEN Result(g, h, 0, {})
    ELSE IF g.loadaddr > 23676 THEN Result(g, h, 0, {})
    ELSE
    LET j     == 23676 - g.loadaddr + 2
        chain == <<DwordIs(0, <<169, 128, 141, 90>>), DwordIs(4, <<113, 32, 243, 94>>),
                   DwordIs(8, <<32, 28, 95, 32>>), DwordIs(12, <<155, 94, 162, 246>>)>>
        reads == ChainReads(g, h, j, chain)
    IN  IF ~ChainMatch(g, h, j, chain) THEN Result(g, h, 0, reads)
        ELSE
        LET g1  == [g EXCEPT !.p = @ + j, !.fsiz = @ - j, !.loadaddr = @ + j,
                             !.initaddr = 23584, !.playaddr = 0,
                             !.psidh[P_MARKER + 1] = 82,
                             !.psidh[P_FREEPAGE + 1] = 4,
                             !.psidh[P_FREEPMAX + 1] = 87]
            h1  == PokeEach(g1, h, MssiahPokes)
            two == Peek(g1, h1, 5386) > 0
            h2  == IF two THEN Poke(g1, h1, 5386, 3) ELSE h1
            g2  == IF two
                   THEN [g1 EXCEPT !.psidh[P_SIDVER + 1] = 3,
                                   !.psidh[P_STEREOAD + 1] = 80,
                                   !.psidh[P_SIDMODEL + 1] =
                                       BitOr(@, (BitAnd(@, 48) * 4)) % 256]
                   ELSE g1
            eb  == SetExtra(SetExtra(g.extrabytes, 0, AddrBytes(23584)), 2, aPatchMssiah)
        IN  Result([g2 EXCEPT !.extrabytes = eb, !.extra = Mssiah_extra, !.ids = "Mssiah"],
                   h2, 1,
                   reads \cup {j + MssiahPokes[n][1] : n \in 1..Len(MssiahPokes)}
                         \cup {j + 5386})

\* the payload indices the signatures chain(n) read for n = from..upto
LoopReads(g, h, chain, from, upto) ==
    UNION {ChainReads(g, h, n, chain) : n \in from..upto}

\* extrabytes of the DoubleTracker branch: the address, the patch copied
\* behind it and the six page bytes
DblTrkExtra(eb, initaddr, k) ==
    LET e1 == SetExtra(SetExtra(eb, 0, AddrBytes(initaddr)), 2, aPatchDblTrk)
    IN  [n \in 1..Len(e1) |->
            IF n - 1 \in {16, 27, 30, 33} THEN k % 256
            ELSE IF n - 1 \in {19, 36} THEN (k + 1) % 256
            ELSE e1[n]]

\* k=(loadaddr>>8)-1
MusAss_page(g) == (g.loadaddr \div 256) - 1

Chk_MusAss(g, h) ==
    IF g.fsiz < 512 THEN Result(g, h, 0, {})
    ELSE
    LET sig  == <<DwordIs(0, <<162, 0, 206, 144>>), DwordIs(5, <<48, 12, 32, 38>>),
                  DwordIs(49, <<41, 15, 141, 98>>)>>
        I    == {n \in 2..36 : ChainMatch(g, h, n, sig)}
        i    == IF I = {} THEN 37 ELSE Min(I)
        rl   == LoopReads(g, h, sig, 2, IF I = {} THEN 36 ELSE i)
    IN  IF I = {} THEN Result(g, h, 0, rl)
        ELSE
        LET dbl == <<ByteIs(2, 173), ByteIs(3, 210),
                     DwordIs(5, <<240, 5, 162, 0>>), DwordIs(25, <<240, 5, 162, 2>>)>>
            rd  == rl \cup ChainReads(g, h, 0, dbl)
        IN  IF ChainMatch(g, h, 0, dbl)
            THEN LET k    == MusAss_page(g)
                     init == k * 256 + 216
                 IN  Result([g EXCEPT !.psidh[P_TIMING + 1] = 1,
                                      !.initaddr = init,
                                      !.playaddr = k * 256 + 234,
                                      !.extra = Len(aPatchDblTrk),
                                      !.extrabytes = DblTrkExtra(@, init, k),
                                      !.ids = "DoubleTracker"],
                            PokeAll(g, h, 0, <<0, 0>>), 1, rd \cup {0, 1})
            ELSE LET init == g.loadaddr + 72 - 35 + i
                     play == g.loadaddr + 33 - 35 + i
                     jmps == <<ByteIs(2, 76), ByteIs(5, 76),
                               WordIs(3, AddrBytes(init)), WordIs(6, AddrBytes(play))>>
                     \* an unsigned short equals an int only in 0..65535
                     std  == init \in 0..65535 /\ play \in 0..65535
                             /\ ChainMatch(g, h, 0, jmps)
                 IN  Result([g EXCEPT !.initaddr = IF std THEN g.loadaddr ELSE init,
                                      !.playaddr = IF std THEN g.loadaddr + 3 ELSE play,
                                      !.ids = "MusicAssembler"],
                            h, 1, rd \cup ChainReads(g, h, 0, jmps))

\* the three signatures of Chk_20CC, tried in this order at every k
Sig20CC ==
    << <<ByteIs(0, 169), ByteIs(2, 48), ByteIs(4, 240), ByteIs(10, 185),
         ByteIs(16, 185), ByteIs(13, 141), ByteIs(19, 141),
         DwordIs(6, <<10, 10, 10, 168>>)>>,
       <<ByteIs(0, 160), ByteIs(2, 48), ByteIs(4, 240), ByteIs(6, 136),
         ByteIs(7, 152), ByteIs(12, 185), DwordIs(8, <<10, 10, 10, 168>>)>>,
       <<ByteIs(0, 160), ByteIs(2, 48), ByteIs(4, 240), ByteIs(6, 162),
         ByteIs(7, 23), ByteIs(21, 142), ByteIs(34, 185)>> >>

\* one of the three signatures is at p+k
Any20CC(g, h, k) == \E s \in 1..3 : ChainMatch(g, h, k, Sig20CC[s])

\* the indices read at p+k: the signatures up to the first that matches
Reads20CC(g, h, k) ==
    LET S == {s \in 1..3 : ChainMatch(g, h, k, Sig20CC[s])}
        last == IF S = {} THEN 3 ELSE Min(S)
    IN  UNION {ChainReads(g, h, k, Sig20CC[s]) : s \in 1..last}

\* if (j>0)
Found20CC(j) == j > 0

Chk_20CC(g, h) ==
    IF g.fsiz < 768 THEN Result(g, h, 0, {})
    ELSE
    LET K    == {k \in 0..255 : Any20CC(g, h, k)}
        j    == IF K = {} THEN -1 ELSE Min(K)
        rl   == UNION {Reads20CC(g, h, k) : k \in 0..(IF K = {} THEN 255 ELSE j)}
    IN  IF Found20CC(j)
        THEN LET init == g.loadaddr - 6
                 play == j + g.loadaddr - 2
             IN  Result([g EXCEPT !.extra = 6, !.initaddr = init, !.playaddr = play,
                                  !.extrabytes = SetExtra(@, 0, AddrBytes(init)
                                                   \o <<169, 1, 141, (play + 1) % 256>>),
                                  !.ids = "20CC" \o " v1"],
                        PokeAll(g, h, 0, <<((play + 1) \div 256) % 256, 96>>), 1,
                        rl \cup {0, 1})
        ELSE
        LET v2 == <<ByteIs(2, 164), ByteIs(8, 76),
                    DwordIs(4, <<48, 9, 240, 3>>), DwordIs(12, <<24, 212, 96, 162>>)>>
            rd == rl \cup ChainReads(g, h, 0, v2)
        IN  IF ChainMatch(g, h, 0, v2)
            THEN LET init == g.loadaddr - 5
                 IN  Result([g EXCEPT !.extra = 5, !.initaddr = init,
                                      !.playaddr = g.loadaddr,
                                      !.extrabytes = SetExtra(@, 0, AddrBytes(init)
                                                       \o <<169, 1, 133>>),
                                      !.ids = "20CC" \o " v2"],
                            PokeAll(g, h, 0, <<Peek(g, h, 3), 96>>), 1,
                            rd \cup {0, 1, 3})
            ELSE Result(g, h, 0, rd)

\* ------------------------------------------------------------------------
\* p2s: the other checks that set the marker to 'R': Chk_PollyTracker,
\* Chk_Polyanna, Chk_StarBars, Chk_QuantumSndTrk
\* ------------------------------------------------------------------------

aPatchPolly1 == <<169, 127, 141, 13, 220, 173, 13, 220, 160, 0, 234>>

aPatchPolly2 == <<160, 25, 185, 71, 11, 153, 255, 211, 136, 208, 247,
                  169, 0, 141, 21, 208, 234, 234, 234, 234, 234, 234>>

aPatchPolyAn == <<
    120, 216, 162, 255, 154, 32, 91, 21, 32, 0, 16, 76, 88, 21, 173, 5,
    32, 208, 11, 162, 2, 189, 0, 13, 149, 0, 232, 208, 248, 96, 162, 2,
    189, 0, 26, 149, 0, 232, 208, 248, 96 >>

\* the payload indices the fills fs = <<address, value, count>>, ... write
FillIdx(g, fs) ==
    UNION {Idx(g, fs[n][1])..(Idx(g, fs[n][1]) + fs[n][3] - 1) : n \in 1..Len(fs)}

\* k=address-loadaddr+2; memset(p+k,value,count); for each fill in turn: a
\* byte holds the value of the last fill that covers it
FillAll(g, h, fs) ==
    LET T      == FillIdx(g, fs)
        Last(y) == Max({n \in 1..Len(fs) :
                          y >= Idx(g, fs[n][1]) /\ y < Idx(g, fs[n][1]) + fs[n][3]})
        Z      == {g.p + y : y \in {t \in T : fs[Last(t)][2] = 0}}
        N      == {g.p + y : y \in {t \in T : fs[Last(t)][2] # 0}}
    IN  [h EXCEPT !.bytes =
            [a \in (DOMAIN h.bytes \ Z) \cup N |->
                IF a \in N THEN fs[Last(a - g.p)][2] ELSE h.bytes[a]]]

\* (loadaddr>=0x0800) && (loadaddr<=0x080d)
Basic(g) == g.loadaddr >= 2048 /\ g.loadaddr <= 2061

\* the three words of a signature at C64 addresses
At3(g, a1, v1, a2, v2, a3, v3) ==
    <<DwordIs(Idx(g, a1), v1), DwordIs(Idx(g, a2), v2), DwordIs(Idx(g, a3), v3)>>

Chk_PollyTracker(g, h) ==
    IF g.fsiz < 1024 THEN Result(g, h, 0, {})
    ELSE IF ~Basic(g) THEN Result(g, h, 0, {})
    ELSE
    LET chain == At3(g, 2073, <<173, 166, 2, 141>>, 2077, <<12, 8, 169, 56>>, 2207, <<74, 74, 74, 74>>)
        reads == ChainReads(g, h, 0, chain)
        fs    == <<<<2231, 169, 1>>, <<2248, 234, 3>>, <<2468, 234, 3>>>>
    IN  IF ~ChainMatch(g, h, 0, chain) THEN Result(g, h, 0, reads)
        ELSE Result([g EXCEPT !.psidh[P_MARKER + 1] = 82,
                              !.psidh[P_FREEPAGE + 1] = 4,
                              !.psidh[P_FREEPMAX + 1] = 4,
                              !.initaddr = 2061, !.playaddr = 0,
                              !.ids = "PollyTracker"],
                    FillAll(g, PatchAt(g, PatchAt(g, h, 2062, aPatchPolly1),
                                       2163, aPatchPolly2), fs),
                    1,
                    reads \cup PatchIdx(g, 2062, aPatchPolly1)
                          \cup PatchIdx(g, 2163, aPatchPolly2) \cup FillIdx(g, fs))

Chk_Polyanna(g, h) ==
    IF g.fsiz < 4096 THEN Result(g, h, 0, {})
    ELSE IF ~Basic(g) THEN Result(g, h, 0, {})
    ELSE
    LET chain == At3(g, 2061, <<120, 216, 162, 255>>, 2075, <<173, 5, 32, 208>>, 4108, <<141, 251, 255, 169>>)
        reads == ChainReads(g, h, 0, chain)
    IN  IF ~ChainMatch(g, h, 0, chain) THEN Result(g, h, 0, reads)
        ELSE Result([g EXCEPT !.psidh[P_MARKER + 1] = 82,
                              !.initaddr = 5453, !.playaddr = 0,
                              !.ids = "Polyanna"],
                    PatchAt(g, h, 5453, aPatchPolyAn), 1,
                    reads \cup PatchIdx(g, 5453, aPatchPolyAn))

StarBarsCommon == <<
      <<2225, 0, 153>>, <<2496, 234, 107>>, <<2651, 96, 1>>,
      <<2652, 0, 1444>>, <<4864, 0, 256>> >>

StarBars11 == <<
      <<4273, 96, 30>>, <<4577, 234, 41>>, <<4651, 96, 23>>,
      <<4721, 96, 18>>, <<4764, 96, 32>> >>

StarBars12 == <<
      <<4257, 96, 30>>, <<4584, 234, 41>>, <<4658, 96, 23>>,
      <<4728, 96, 18>>, <<4771, 96, 32>> >>

StarBars13beta == <<
      <<2066, 234, 144>>, <<2264, 96, 1>>, <<2265, 0, 87>>,
      <<2513, 96, 30>>, <<2848, 0, 1248>>, <<4261, 234, 41>>,
      <<4338, 96, 23>>, <<4408, 96, 152>>, <<4584, 96, 33>>,
      <<4618, 0, 502>>, <<5148, 0, 228>> >>

StarBars13 == <<
      <<2072, 234, 123>>, <<2278, 96, 73>>, <<2531, 96, 30>>,
      <<2866, 0, 1230>>, <<4276, 234, 28>>, <<4311, 96, 62>>,
      <<4380, 96, 16>>, <<4415, 96, 146>>, <<4612, 96, 32>>,
      <<4749, 0, 371>>, <<5148, 0, 228>> >>

StarBars14beta == <<
      <<2072, 234, 117>>, <<2272, 96, 72>>, <<2535, 96, 30>>,
      <<2870, 0, 1226>>, <<4276, 234, 28>>, <<4311, 96, 62>>,
      <<4380, 96, 16>>, <<4415, 96, 146>>, <<4612, 96, 32>>,
      <<4749, 0, 371>>, <<5148, 0, 228>> >>

StarBars14 == <<
      <<2071, 234, 78>>, <<2232, 96, 72>>, <<2518, 96, 30>>,
      <<2869, 0, 1227>>, <<4276, 234, 28>>, <<4311, 96, 62>>,
      <<4380, 96, 16>>, <<4415, 96, 146>>, <<4612, 96, 32>>,
      <<4749, 0, 371>>, <<5148, 0, 149>> >>

QuantumCommon == <<
      <<2081, 234, 3>>, <<2092, 120, 12>>, <<2279, 96, 86>>,
      <<4032, 96, 63>>, <<56685, 234, 3>>, <<56691, 234, 3>>,
      <<56719, 96, 60>> >>

QuantumDemo == <<
      <<2622, 96, 742>>, <<3466, 96, 185>> >>

Quantum10 == <<
      <<2622, 96, 740>>, <<3464, 96, 185>> >>

\* the versions Chk_StarBars knows, in the order it tries them: the three
\* signature words, the address and value of the byte j, the init address,
\* the end of the name and the patches
StarBarsVersions == <<
    [sig |-> <<2061, <<76, 187, 9, 0>>, 2204, <<65, 69, 73, 78>>, 4096, <<173, 4, 21, 141>>>>,
     jat |-> 2494, j |-> 66, init |-> 2491, name |-> "v1.1",
     fills |-> StarBarsCommon \o StarBars11],
    [sig |-> <<2061, <<76, 187, 9, 0>>, 2204, <<65, 69, 73, 78>>, 4096, <<173, 4, 21, 141>>>>,
     jat |-> 2494, j |-> 73, init |-> 2491, name |-> "v1.2",
     fills |-> StarBarsCommon \o StarBars12],
    [sig |-> <<2061, <<120, 216, 32, 9>>, 2827, <<65, 69, 73, 78>>, 2352, <<173, 4, 21, 141>>>>,
     jat |-> 2064, j |-> 9, init |-> 2061, name |-> "v1.3" \o "beta",
     fills |-> StarBars13beta],
    [sig |-> <<2061, <<120, 216, 169, 0>>, 2845, <<65, 69, 73, 78>>, 2351, <<173, 4, 21, 141>>>>,
     jat |-> 2073, j |-> 4, init |-> 2061, name |-> "v1.3",
     fills |-> StarBars13],
    [sig |-> <<2061, <<120, 216, 169, 0>>, 2849, <<65, 69, 73, 78>>, 2345, <<173, 4, 21, 141>>>>,
     jat |-> 2073, j |-> 4, init |-> 2061, name |-> "v1.4" \o "beta",
     fills |-> StarBars14beta],
    [sig |-> <<2061, <<120, 169, 0, 170>>, 2848, <<65, 69, 73, 78>>, 2305, <<173, 4, 21, 141>>>>,
     jat |-> 2072, j |-> 4, init |-> 2061, name |-> "v1.4",
     fills |-> StarBars14] >>

\* the signature of version v as a chain
StarBarsChain(g, v) == At3(g, v.sig[1], v.sig[2], v.sig[3], v.sig[4], v.sig[5], v.sig[6])

\* the indices read while version v is tried: its signature and, when the
\* signature is there, the byte j
StarBarsReads(g, h, v) ==
    ChainReads(g, h, 0, StarBarsChain(g, v))
    \cup (IF ChainMatch(g, h, 0, StarBarsChain(g, v)) THEN {Idx(g, v.jat)} ELSE {})

Chk_StarBars(g, h) ==
    IF g.fsiz < 4096 THEN Result(g, h, 0, {})
    ELSE IF ~Basic(g) THEN Result(g, h, 0, {})
    ELSE
    LET M == {n \in 1..Len(StarBarsVersions) :
                 /\ ChainMatch(g, h, 0, StarBarsChain(g, StarBarsVersions[n]))
                 /\ Peek(g, h, Idx(g, StarBarsVersions[n].jat)) = StarBarsVersions[n].j}
        last  == IF M = {} THEN Len(StarBarsVersions) ELSE Min(M)
        reads == UNION {StarBarsReads(g, h, StarBarsVersions[n]) : n \in 1..last}
    IN  IF M = {} THEN Result(g, h, 0, reads)
        ELSE
        LET v == StarBarsVersions[last]
        IN  Result([g EXCEPT !.psidh[P_MARKER + 1] = 82,
                             !.psidh[P_SIDMODEL + 1] = 52,
                             !.initaddr = v.init, !.playaddr = 0,
                             !.ids = "StarBars " \o v.name],
                   FillAll(g, h, v.fills), 1, reads \cup FillIdx(g, v.fills))

\* Chk_QuantumSndTrk leaving the play address as it found it
QuantumPlay_kept(g) == g.playaddr

\* playaddr=0
QuantumPlay(g) == 0

Chk_QuantumSndTrk(g, h) ==
    IF g.fsiz < 56719 + 60 + 2 - g.loadaddr THEN Result(g, h, 0, {})
    ELSE IF ~Basic(g) THEN Result(g, h, 0, {})
    ELSE
    LET chain == At3(g, 2063, <<13, 169, 52, 133>>, 2203, <<138, 74, 74, 74>>, 2479, <<13, 221, 240, 237>>)
        reads == ChainReads(g, h, 0, chain)
        j     == Peek(g, h, Idx(g, 2062))
        fs    == QuantumCommon \o (IF j = 108 THEN QuantumDemo ELSE Quantum10)
    IN  IF ~ChainMatch(g, h, 0, chain) THEN Result(g, h, 0, reads)
        ELSE IF j \notin {106, 108} THEN Result(g, h, 0, reads \cup {Idx(g, 2062)})
        ELSE Result([g EXCEPT !.psidh[P_MARKER + 1] = 82,
                              !.psidh[P_FREEPAGE + 1] = 4,
                              !.psidh[P_FREEPMAX + 1] = 4,
                              !.initaddr = 2061, !.playaddr = QuantumPlay(g),
                              !.ids = "Quantum SoundTracker 1.0"
                                      \o (IF j = 108 THEN "/demo" ELSE "")],
                    FillAll(g, h, fs), 1, reads \cup {Idx(g, 2062)} \cup FillIdx(g, fs))

\* ------------------------------------------------------------------------
\* p2s: indirection probes (Chk_4JMPS) and a check that keeps the incoming
\* play address (Chk_Bjerregaard1)
\* ------------------------------------------------------------------------

aPatchDMC4f9 == <<200, 177, 248, 157, 38, 23, 96>>

\* p[n]|p[n+1]<<8
Word(g, h, n) == Peek(g, h, n) + 256 * Peek(g, h, n + 1)

HexDigits == <<"0", "1", "2", "3", "4", "5", "6", "7", "8", "9", "a", "b", "c", "d", "e", "f">>

\* sprintf "%02x" of a value 0..255
Hex02(n) == HexDigits[(n \div 16) + 1] \o HexDigits[(n % 16) + 1]

\* One indirection probe of a run of a check: the pointer at p[at] gave the
\* offset j; tested says that CheckJ(j,fsiz) was evaluated on it; read says
\* that a payload byte at an offset based on j was read while j held it.
Probe(at, j, tested, read) == [at |-> at, j |-> j, tested |-> tested, read |-> read]

Traced(res, probes) == [res |-> res, probes |-> probes]

\* the DMC 4.x branch of Chk_4JMPS and its return 0
Chk_4JMPS_DMC4(g, h, acc, ps) ==
    LET k     == g.loadaddr \div 256
        sig   == <<DwordMaskIs(0, <<255, 255, 0, 255>>, <<76, 29, 0, 76>>),
                   DwordMaskIs(4, <<255, 0, 255, 255>>, <<133, 0, 76, 47>>),
                   DwordMaskIs(223, <<255, 255, 0, 255>>, <<32, 249, 0, 76>>)>>
        m     == ChainMatch(g, h, 2, sig)
        reads == acc \cup ChainReads(g, h, 2, sig) \cup (IF m THEN {2 + 225} ELSE {})
    IN  IF m /\ Peek(g, h, 2 + 225) = k - 1
        THEN LET j == (k - 1) * 256 + 249
             IN  Traced(Result([g EXCEPT !.initaddr = g.loadaddr,
                                         !.playaddr = g.loadaddr + 3,
                                         !.extrabytes = SetExtra(SetExtra(@, 0, AddrBytes(j)
                                                                 \o aPatchDMC4f9),
                                                                 2 + 5, <<k + 7>>),
                                         !.extra = Len(aPatchDMC4f9),
                                         !.ids = "DMC 4.x + patch @ $" \o Hex02(k - 1) \o "f9"],
                               PokeAll(g, h, 0, <<k + 7, aPatchDMC4f9[Len(aPatchDMC4f9)]>>),
                               1, reads \cup {0, 1}), ps)
        ELSE Traced(Result(g, h, 0, reads), ps)

\* the Heathcliff branch of Chk_4JMPS, entered with whatever j holds
Chk_4JMPS_Heathcliff(g, h, j, acc, ps) ==
    LET sig == <<DwordMaskIs(0, <<255, 0, 255, 255>>, <<169, 0, 240, 251>>),
                 DwordMaskIs(4, <<255, 240, 255, 0>>, <<169, 0, 141, 0>>),
                 DwordMaskIs(9, <<255, 255, 255, 0>>, <<162, 0, 32, 0>>),
                 DwordMaskIs(14, <<255, 255, 255, 0>>, <<162, 7, 32, 0>>)>>
        reads == acc \cup ChainReads(g, h, j, sig)
    IN  IF ChainMatch(g, h, j, sig)
        THEN Traced(Result([g EXCEPT !.initaddr = g.loadaddr + 9,
                                     !.playaddr = g.loadaddr + 0,
                                     !.ids = "Heathcliff" \o " v1"],
                           h, 1, reads), ps)
        ELSE Chk_4JMPS_DMC4(g, h, reads, ps)

\* The TFMX branch of Chk_4JMPS, entered with whatever j holds: the offset
\* of the pointer at p[at], which the code that computed it passed to CheckJ.
\* The branch reads p[j] first; its own pointer (p2s.c:617) is used as it is.
Chk_4JMPS_TFMX(g, h, at, j, acc, ps) ==
    LET sig == <<ByteIs(0, 173), ByteIs(3, 48), ByteIs(5, 32)>>
        ps1 == Append(ps, Probe(at, j, TRUE, TRUE))
        rd1 == acc \cup ChainReads(g, h, j, sig)
    IN  IF ~ChainMatch(g, h, j, sig) THEN Chk_4JMPS_Heathcliff(g, h, j, rd1, ps1)
        ELSE
        LET j3   == AdjustJ(Word(g, h, 12), g.loadaddr)
            sig3 == <<ByteIs(0, 141), ByteIs(3, 142), ByteIs(6, 96)>>
            m3   == ChainMatch(g, h, j3, sig3)
            rd3  == rd1 \cup {12, 13} \cup ChainReads(g, h, j3, sig3)
                        \cup (IF m3 THEN {j3 + 7} ELSE {})
                        \cup (IF m3 /\ Peek(g, h, j3 + 7) # 24 THEN {j3 + 12} ELSE {})
            ps3  == Append(ps1, Probe(12, j3, FALSE, TRUE))
        IN  IF m3 /\ (Peek(g, h, j3 + 7) = 24 \/ Peek(g, h, j3 + 12) = 24)
            THEN Traced(Result([g EXCEPT !.initaddr = g.loadaddr + 9,
                                         !.playaddr = g.loadaddr + 0,
                                         !.ids = "TFMX/Huelsbeck"],
                               h, 1, rd3), ps3)
            ELSE Chk_4JMPS_Heathcliff(g, h, j3, rd3, ps3)

\* the Prosonix branch of Chk_4JMPS: j1 passed CheckJ
Chk_4JMPS_Prosonix(g, h, j1, acc) ==
    LET p1  == Probe(3, j1, TRUE, TRUE)
        rd1 == acc \cup {j1 + b : b \in 0..3}
    IN  IF ~TestPasses(g, h, j1, DwordIs(0, <<169, 3, 141, 12>>))
        THEN Chk_4JMPS_TFMX(g, h, 3, j1, rd1, <<>>)
        ELSE
        LET j2  == AdjustJ(Word(g, h, 12), g.loadaddr)
            sig == <<ByteIs(0, 173), ByteIs(1, 12), ByteIs(3, 240), ByteIs(8, 76)>>
            in2 == ~CheckJ(j2, g.fsiz)
            rd2 == rd1 \cup {12, 13} \cup (IF in2 THEN ChainReads(g, h, j2, sig) ELSE {})
        IN  IF in2 /\ ChainMatch(g, h, j2, sig)
            THEN Traced(Result([g EXCEPT !.initaddr = g.loadaddr + 0,
                                         !.playaddr = g.loadaddr + 9,
                                         !.ids = "Prosonix" \o " v2"],
                               h, 1, rd2), <<p1, Probe(12, j2, TRUE, TRUE)>>)
            ELSE Chk_4JMPS_TFMX(g, h, 12, j2, rd2, <<p1>>)

\* Chk_4JMPS together with the indirection probes it performed
Chk_4JMPS_Trace(g, h) ==
    IF g.fsiz < 2048 THEN Traced(Result(g, h, 0, {}), <<>>)
    ELSE
    LET jmps == <<ByteIs(2, 76), ByteIs(5, 76), ByteIs(8, 76), ByteIs(11, 76)>>
        rd0  == ChainReads(g, h, 0, jmps)
    IN  IF ~ChainMatch(g, h, 0, jmps) THEN Traced(Result(g, h, 0, rd0), <<>>)
        ELSE
        LET j1 == AdjustJ(Word(g, h, 3), g.loadaddr)
        IN  IF CheckJ(j1, g.fsiz)
            THEN Traced(Result(g, h, 0, rd0 \cup {3, 4}), <<Probe(3, j1, TRUE, FALSE)>>)
            ELSE Chk_4JMPS_Prosonix(g, h, j1, rd0 \cup {3, 4})

Chk_4JMPS(g, h) == Chk_4JMPS_Trace(g, h).res

\* if(j!=k) playaddr=j: a JMP at p[5] to the routine found leaves playaddr
\* as the check found it
Bjerregaard1_play(g, ja, keep) == IF keep THEN g.playaddr ELSE ja

Chk_Bjerregaard1(g, h) ==
    IF g.fsiz < 512 THEN Result(g, h, 0, {})
    ELSE
    LET sig  == <<ByteIs(0, 173), DwordIs(3, <<16, 1, 96, 206>>), ByteIs(9, 16)>>
        jmp  == Peek(g, h, 2) = 76
        K    == IF jmp THEN {k \in 0..255 : ChainMatch(g, h, k, sig)} ELSE {}
        j    == IF K = {} THEN -1 ELSE Min(K)
        acc  == {2} \cup (IF jmp
                          THEN UNION {ChainReads(g, h, k, sig) :
                                          k \in 0..(IF K = {} THEN 255 ELSE j)}
                          ELSE {})
    IN  IF ~(j > 0) THEN Result(g, h, 0, acc)
        ELSE
        LET initaddr == g.loadaddr - 1
            ja       == j + g.loadaddr - 2
            jmp5     == Peek(g, h, 5) = 76
            keep     == jmp5 /\ ja = Word(g, h, 6)
        IN  Result([g EXCEPT !.initaddr = initaddr,
                             !.extrabytes = SetExtra(@, 0, <<initaddr % 256>>),
                             !.extra = 1,
                             !.playaddr = Bjerregaard1_play(g, ja, keep),
                             !.ids = "Bjerregaard" \o " v1"],
                   PokeAll(g, h, 0, <<initaddr \div 256, 170>>), 1,
                   acc \cup {0, 1, 5} \cup (IF jmp5 THEN {6, 7} ELSE {}))

Chk_MattGray(g, h) ==
    IF g.fsiz < 512 THEN Result(g, h, 0, {})
    ELSE
    LET chain == <<ByteIs(4, 162), ByteIs(5, 0), ByteIs(6, 32),
                   ByteIs(19, 96), ByteIs(20, 173),
                   ByteIs(21, g.loadaddr % 256), ByteIs(22, g.loadaddr \div 256),
                   ByteIs(29, 201), ByteIs(30, 171)>>
        reads == ChainReads(g, h, 0, chain)
    IN  IF ~ChainMatch(g, h, 0, chain) THEN Result(g, h, 0, reads)
        ELSE
        LET initaddr == g.loadaddr - 6
            prepend == <<initaddr % 256, (initaddr \div 256) % 256, 169, 1, 141,
                         g.loadaddr % 256>>
        IN  Result([g EXCEPT !.extra = 6,
                             !.initaddr = initaddr,
                             !.playaddr = g.loadaddr + 2,
                             !.extrabytes = prepend \o SubSeq(@, 7, 128),
                             !.ids = "Matt Gray"],
                   PokeAll(g, h, 0, <<g.loadaddr \div 256, 96>>),
                   1, reads \cup {0, 1})

Chk_Griff2(g, h) ==
    IF g.fsiz < 512 THEN Result(g, h, 0, {})
    ELSE
    LET chain == <<ByteIs(2, 76), DwordIs(5, <<173, 168, 3, 240>>), DwordIs(9, <<1, 96, 173, 80>>),
                   DwordIs(13, <<3, 141, 24, 212>>), DwordIs(17, <<173, 81, 3, 141>>)>>
        reads == ChainReads(g, h, 0, chain)
    IN  IF ~ChainMatch(g, h, 0, chain) THEN Result(g, h, 0, reads)
        ELSE
        LET initaddr == g.loadaddr - 1
        IN  Result([g EXCEPT !.initaddr = initaddr,
                             !.extrabytes = <<initaddr % 256>> \o SubSeq(@, 2, 128),
                             !.extra = 1,
                             !.ids = "Griff/LightVoices"],
                   PokeAll(g, h, 0, <<initaddr \div 256, 168>>),
                   1, reads \cup {0, 1})

\* the indices lo..hi at which the payload holds a nonzero byte: a signature
\* whose first byte is not 0 can only be found at one of them
NonZero(g, h, lo, hi) == {n \in {y - g.p : y \in DOMAIN h.bytes} : n >= lo /\ n <= hi}

Chk_GRGTiny2(g, h) ==
    IF g.fsiz < 256 THEN Result(g, h, 0, {})
    ELSE
    LET last == g.fsiz - 32 - 1
        psig == <<ByteIs(0, 162), ByteIs(1, 14), ByteIs(2, 134)>>
        InitAt(n) ==
            /\ Peek(g, h, n) = 169
            /\ Peek(g, h, n + 1) = 96
            /\ \/ Peek(g, h, n + 2) = 141 /\ Peek(g, h, n + 5) = 162
               \/ Peek(g, h, n + 2) = 133 /\ Peek(g, h, n + 4) = 162
        KP == {n \in NonZero(g, h, 0, last) : ChainMatch(g, h, n, psig)}
        KI == {n \in NonZero(g, h, 0, last) : InitAt(n)}
        found == KP # {} /\ KI # {}
        \* the value of k at which j becomes 3
        kb == IF found THEN Max({Min(KP), Min(KI)}) ELSE last
        kp == Max({n \in KP : n <= kb})
        ki == Max({n \in KI : n <= kb})
        \* for(i=k-4;i>k-0x20;i--): the self-modifying NTSC prologue
        Pro(n) == {m \in (n - 31)..(n - 4) :
                      TestPasses(g, h, m, DwordMaskIs(0, <<172, 255, 255, 255>>, <<172, 166, 2, 208>>))}
        ProReads(n) == UNION {m..(m + 3) :
                          m \in (IF Pro(n) = {} THEN n - 31 ELSE Max(Pro(n)))..(n - 4)}
        acc == 0..(last + 5) \cup UNION {ProReads(n) : n \in {m \in KI : m <= kb}}
    IN  IF found
        THEN Result([g EXCEPT !.playaddr = kp + g.loadaddr - 2,
                              !.initaddr = (IF Pro(ki) = {} THEN ki ELSE Max(Pro(ki)))
                                           + g.loadaddr - 2,
                              !.ids = "GRG Tiny2"],
                    h, 1, acc)
        ELSE Result(DefaultEntry(g), h, 0, acc)

Chk_GRGTiny4(g, h) ==
    IF g.fsiz < 256 THEN Result(g, h, 0, {})
    ELSE
    LET last == g.fsiz - 32 - 1
        \* variant 1
        psig1 == <<ByteIs(0, 162), ByteIs(1, 14), ByteIs(2, 181), ByteIs(4, 240),
                   ByteIs(6, 214), ByteIs(8, 208)>>
        \* variant 2
        psig2 == <<ByteIs(0, 162), ByteIs(1, 14), ByteIs(2, 180), ByteIs(4, 181),
                   ByteIs(6, 16), ByteIs(8, 165)>>
        InitAt(n) ==
            /\ Peek(g, h, n) = 169
            /\ Peek(g, h, n + 1) = 0
            /\ Peek(g, h, n + 2) = 162
            /\ Peek(g, h, n + 3) \in {20, 22}
            /\ Peek(g, h, n + 6) = 212
        KP == {n \in NonZero(g, h, 0, last) : ChainMatch(g, h, n, psig1) \/ ChainMatch(g, h, n, psig2)}
        KI == {n \in NonZero(g, h, 0, last) : InitAt(n)}
        found == KP # {} /\ KI # {}
        kb == IF found THEN Max({Min(KP), Min(KI)}) ELSE last
        \* every index of this function lies in this range
        acc == 0..(last + 8)
    IN  IF found
        THEN Result([g EXCEPT !.playaddr = Max({n \in KP : n <= kb}) + g.loadaddr - 2,
                              !.initaddr = Max({n \in KI : n <= kb}) + g.loadaddr - 2,
                              !.ids = "GRG Tiny4"],
                    h, 1, acc)
        ELSE Result(DefaultEntry(g), h, 0, acc)

\* ------------------------------------------------------------------------
\* p2s: the scanner
\* ------------------------------------------------------------------------

\* The check functions whose signatures occur in the images of this model.
Modelled == {"Chk_FC", "Chk_FCAlt", "Chk_HubbardV4", "Chk_AMP1", "Chk_ReflexTrk",
             "Chk_FAME", "Chk_MattGray", "Chk_GRGTiny2", "Chk_GRGTiny4", "Chk_Griff2",
             "Chk_Soundmon", "Chk_Mssiah", "Chk_PollyTracker", "Chk_Polyanna",
             "Chk_StarBars", "Chk_QuantumSndTrk", "Chk_MusAss", "Chk_20CC",
             "Chk_4JMPS", "Chk_Bjerregaard1"}

\* (ScanFunc[x])() for the 0-based index x.  The signature of every other
\* entry is absent from every image of P2sImages; on such an image the
\* function returns 0 and leaves the globals and the payload as they are.
CallCheck(x, g, h) ==
    LET f == ScanFunc[x + 1]
    IN  CASE f = "Chk_FC"        -> Chk_FC(g, h)
          [] f = "Chk_FCAlt"     -> Chk_FCAlt(g, h)
          [] f = "Chk_Soundmon"  -> Chk_Soundmon(g, h)
          [] f = "Chk_Mssiah"    -> Chk_Mssiah(g, h)
          [] f = "Chk_PollyTracker" -> Chk_PollyTracker(g, h)
          [] f = "Chk_Polyanna"  -> Chk_Polyanna(g, h)
          [] f = "Chk_StarBars"  -> Chk_StarBars(g, h)
          [] f = "Chk_QuantumSndTrk" -> Chk_QuantumSndTrk(g, h)
          [] f = "Chk_MusAss"    -> Chk_MusAss(g, h)
          [] f = "Chk_20CC"      -> Chk_20CC(g, h)
          [] f = "Chk_4JMPS"     -> Chk_4JMPS(g, h)
          [] f = "Chk_Bjerregaard1" -> Chk_Bjerregaard1(g, h)
          [] f = "Chk_HubbardV4" -> Chk_HubbardV4(g, h)
          [] f = "Chk_AMP1"      -> Chk_AMP1(g, h)
          [] f = "Chk_ReflexTrk" -> Chk_ReflexTrk(g, h)
          [] f = "Chk_FAME"      -> Chk_FAME(g, h)
          [] f = "Chk_MattGray"  -> Chk_MattGray(g, h)
          [] f = "Chk_GRGTiny2"  -> Chk_GRGTiny2(g, h)
          [] f = "Chk_GRGTiny4"  -> Chk_GRGTiny4(g, h)
          [] f = "Chk_Griff2"    -> Chk_Griff2(g, h)
          [] OTHER               -> Result(g, h, 0, {})

\* ------------------------------------------------------------------------
\* p2s: the inputs of the model
\* ------------------------------------------------------------------------

NoBytes == [y \in {} |-> 0]

\* pieces, a sequence of <<offset, bytes>>, laid down in order over zeros
Lay(pieces) ==
    LET Covers(y) == {n \in 1..Len(pieces) :
                         y \in pieces[n][1]..(pieces[n][1] + Len(pieces[n][2]) - 1)}
        Val(y) == LET n == Max(Covers(y)) IN pieces[n][2][y - pieces[n][1] + 1]
        span == UNION {pieces[n][1]..(pieces[n][1] + Len(pieces[n][2]) - 1) :
                          n \in 1..Len(pieces)}
    IN  [y \in {y \in span : Val(y) # 0} |-> Val(y)]

\* the first n bytes of f
Clip(f, n) == [y \in {x \in DOMAIN f : x < n} |-> f[y]]

\* a PRG of nbytes bytes: load address, then zeros except for the pieces
File(name, la, nbytes, pieces) ==
    [name |-> name, exists |-> TRUE, size |-> nbytes,
     bytes |-> Clip(Lay(<<<<0, <<la % 256, la \div 256>>>>>> \o pieces), nbytes)]

\* argv[1] names no readable file
Missing == [name |-> "missing", exists |-> FALSE, size |-> 0, bytes |-> NoBytes]

At(base, pieces) == [n \in 1..Len(pieces) |-> <<base + pieces[n][1], pieces[n][2]>>]

\* the bytes the signatures of the check functions ask for
Code == <<<<2, <<169, 0, 96>>>>>>

FcSig == <<<<2, <<76>>>>, <<8, <<173>>>>, <<11, <<201, 0, 240, 7, 201>>>>>>

FcAltSig == <<<<2, <<76, 8>>>>, <<44, <<238, 66>>>>, <<47, <<238, 67>>>>>>

TablePieces(tab) == [n \in 1..Len(tab) |-> <<2 + tab[n][1], <<tab[n][2]>>>>]

Amp1Sig(n) == <<<<n, <<224, 21, 176, 11, 173>>>>, <<n + 7, <<61>>>>,
                <<n + 10, <<240>>>>>>

Fame1Sig(n) == <<<<n, <<170, 189>>>>, <<n + 4, <<141>>>>,
                 <<n + 7, <<138, 10, 133, 80, 10, 24, 101, 80>>>>,
                 <<n + 53, <<76>>>>, <<n + 56, <<162>>>>>>

ReflexSig == <<<<0, <<76, 44, 192, 76, 22, 192>>>>,
               <<10, <<1, 32, 44, 192>>>>>>

RockMon3h == <<32, 225, 203, 173>>

RockMon2 == <<32, 160, 128, 173>>

SoundmonSig(la, third) ==
    <<<<49152 - la + 2, <<76, 18, 192, 76>>>>,
      <<49184 - la + 2, <<165, 1, 141, 197>>>>,
      <<49193 - la + 2, third>>>>

MssiahSig(la) ==
    <<<<23676 - la + 2, <<169, 128, 141, 90, 113, 32, 243, 94,
                           32, 28, 95, 32, 155, 94, 162, 246>>>>>>

MusAssSig(n) ==
    <<<<n, <<162, 0, 206, 144>>>>, <<n + 5, <<48, 12, 32, 38>>>>,
      <<n + 49, <<41, 15, 141, 98>>>>>>

DblTrkSig == <<<<2, <<173, 210>>>>, <<5, <<240, 5, 162, 0>>>>,
               <<25, <<240, 5, 162, 2>>>>>>

JmpsTo(a, b) == <<<<2, <<76, a % 256, a \div 256, 76, b % 256, b \div 256>>>>>>

CC1Sig(n) ==
    <<<<n, <<169, 0, 48, 0, 240, 0, 10, 10, 10, 168, 185>>>>,
      <<n + 13, <<141>>>>, <<n + 16, <<185>>>>, <<n + 19, <<141>>>>>>

CC2Sig == <<<<2, <<164, 119, 48, 9, 240, 3, 76>>>>,
            <<12, <<24, 212, 96, 162>>>>>>

\* the pieces of a signature of three words at C64 addresses
SigAt(la, sig) ==
    <<<<sig[1] - la + 2, sig[2]>>, <<sig[3] - la + 2, sig[4]>>, <<sig[5] - la + 2, sig[6]>>>>

PollySig == <<2073, <<173, 166, 2, 141>>, 2077, <<12, 8, 169, 56>>, 2207, <<74, 74, 74, 74>>>>

PolyannaSig == <<2061, <<120, 216, 162, 255>>, 2075, <<173, 5, 32, 208>>, 4108, <<141, 251, 255, 169>>>>

QuantumSig == <<2063, <<13, 169, 52, 133>>, 2203, <<138, 74, 74, 74>>, 2479, <<13, 221, 240, 237>>>>

\* bytes inside and next to the areas Chk_StarBars clears
Noise(la) == [n \in 1..6 |->
                 <<<<2656, 3072, 4660, 4865, 5375, 5376>>[n] - la + 2, <<85>>>>]

StarBarsImage(la, n) ==
    SigAt(la, StarBarsVersions[n].sig)
    \o <<<<StarBarsVersions[n].jat - la + 2, <<StarBarsVersions[n].j>>>>>>
    \o Noise(la)

Jmps4(a, b) == <<<<2, <<76, a % 256, a \div 256, 76, 0, 0, 76, 0, 0,
                          76, b % 256, b \div 256>>>>>>

TfmxSig(n) == <<<<n, <<173>>>>, <<n + 3, <<48>>>>, <<n + 5, <<32>>>>>>

TfmxInit(n) == <<<<n, <<141>>>>, <<n + 3, <<142>>>>, <<n + 6, <<96, 24>>>>>>

ProsonixSig(n) == <<<<n, <<169, 3, 141, 12>>>>>>

ProsonixInit(n) == <<<<n, <<173, 12>>>>, <<n + 3, <<240>>>>, <<n + 8, <<76>>>>>>

Dmc4Sig == <<<<2, <<76, 29, 16, 76, 133, 0, 76, 47>>>>, <<11, <<76>>>>,
             <<2 + 223, <<32, 249, 15, 76>>>>>>

BjerregaardSig(n) == <<<<n, <<173>>>>, <<n + 3, <<16, 1, 96, 206>>>>,
                       <<n + 9, <<16>>>>>>

HubbardV4Sig(n, ptr) ==
    <<<<n, <<162, 2, 206, ptr % 256, ptr \div 256, 16, 6, 173>>>>,
      <<n + 43, <<48>>>>, <<n + 45, <<76>>>>, <<n + 48, <<76>>>>>>

HubbardV4Play(n) == <<<<n, <<173>>>>, <<n + 3, <<208>>>>, <<n + 5, <<238>>>>,
                      <<n + 8, <<238>>>>>>

HubbardV4Init(n) == <<<<n, <<170, 189>>>>, <<n + 4, <<133>>>>, <<n + 6, <<189>>>>,
                      <<n + 9, <<133>>>>, <<n + 24, <<162>>>>>>

MattGraySig(la) == <<<<4, <<162, 0, 32>>>>,
                     <<19, <<96, 173, la % 256, la \div 256>>>>,
                     <<29, <<201, 171>>>>>>

Griff2Sig == <<<<2, <<76>>>>,
               <<5, <<173, 168, 3, 240, 1, 96, 173, 80,
                         3, 141, 24, 212, 173, 81, 3, 141>>>>>>

P2sImages == {
    File("empty", 0, 0,
         <<>>),
    File("one", 16, 1,
         <<>>),
    File("generic_low", 16, 66,
         Code),
    File("generic2", 4096, 2,
         <<>>),
    File("generic66", 4096, 66,
         Code),
    File("generic100", 2049, 256,
         Code),
    File("generic_top", 65533, 5,
         Code),
    File("generic_cut", 65280, 512,
         Code \o <<<<496, <<1, 2, 3>>>>>>),
    File("fc", 4096, 512,
         FcSig),
    File("fcadj", 4096, 512,
         FcSig \o <<<<71, <<173, 32, 208>>>>>>),
    File("fcboth", 4096, 512,
         FcSig \o FcAltSig),
    File("fcalt", 4096, 512,
         FcAltSig),
    File("fc40", 4096, 1840,
         FcSig \o TablePieces(af4) \o TablePieces(af40) \o <<<<2 + 6 + 2, <<1>>>>, <<2 + 1796 + 2, <<1>>>>>>),
    File("fc41", 4096, 1538,
         FcSig \o TablePieces(af4) \o TablePieces(SubSeq(af41, 1, Len(af41) - 1))),
    File("fc40short", 4096, 1538,
         FcSig \o TablePieces(af4) \o TablePieces(SubSeq(af40, 1, 1))),
    File("amp1_fail", 4096, 1536,
         Amp1Sig(768)),
    File("amp1_ok", 4096, 1536,
         Amp1Sig(768) \o <<<<765, <<96>>>>, <<784, <<96, 169>>>>>>),
    File("amp1_noinit", 4096, 1536,
         Amp1Sig(768) \o <<<<765, <<96>>>>>>),
    File("fame_k0", 48554, 768,
         Tail(Fame1Sig(0)) \o <<<<0, <<170, 189>>>>>>),
    File("fame_k4", 4096, 768,
         Fame1Sig(4)),
    File("reflex_ok", 49152, 1536,
         At(2, ReflexSig)),
    File("reflex_mattgray", 48896, 1792,
         At(258, ReflexSig) \o MattGraySig(48896)),
    File("reflex_oob", 50688, 256,
         Code),
    File("reflex_short", 50688, 128,
         Code),
    File("rockmon3h", 24576, 27393,
         SoundmonSig(24576, RockMon3h)),
    File("rockmon3h_short", 24576, 27392,
         SoundmonSig(24576, RockMon3h)),
    File("rockmon2", 1792, 50432,
         SoundmonSig(1792, RockMon2)),
    File("soundmon", 40960, 11009,
         SoundmonSig(40960, <<32, 0, 0, 0>>)),
    File("mssiah", 23552, 20480,
         MssiahSig(23552)),
    File("mssiah2", 23676, 20480,
         MssiahSig(23676) \o <<<<2 + 5386, <<1>>>>>>),
    File("dbltrk", 4096, 512,
         MusAssSig(35) \o DblTrkSig),
    File("dbltrk_off", 4112, 512,
         MusAssSig(35) \o DblTrkSig),
    File("musass", 4096, 512,
         MusAssSig(35)),
    File("musass_std", 4096, 512,
         MusAssSig(16) \o JmpsTo(4149, 4110)),
    File("cc1", 4096, 768,
         CC1Sig(64)),
    File("cc1_at0", 43280, 768,
         Tail(CC1Sig(0)) \o <<<<2, <<48, 0, 240, 0, 10, 10, 10, 168, 185>>>>>>),
    File("cc2", 4096, 768,
         CC2Sig),
    File("cc2_low", 3, 768,
         CC2Sig),
    File("polly", 2049, 1024,
         SigAt(2049, PollySig)),
    File("polyanna", 2061, 4096,
         SigAt(2061, PolyannaSig)),
    File("polyanna_low", 2047, 4096,
         SigAt(2047, PolyannaSig)),
    File("starbars1", 2049, 4096,
         StarBarsImage(2049, 1)),
    File("starbars2", 2049, 4096,
         StarBarsImage(2049, 2)),
    File("starbars3", 2049, 4096,
         StarBarsImage(2049, 3)),
    File("starbars4", 2049, 4096,
         StarBarsImage(2049, 4)),
    File("starbars5", 2049, 4096,
         StarBarsImage(2049, 5)),
    File("starbars6", 2049, 4096,
         StarBarsImage(2049, 6)),
    File("starbars_j", 2049, 4096,
         SigAt(2049, StarBarsVersions[4].sig) \o <<<<2073 - 2049 + 2, <<5>>>>>>),
    File("quantum", 2049, 54732,
         SigAt(2049, QuantumSig) \o <<<<2062 - 2049 + 2, <<106>>>>>>),
    File("quantum_demo", 2048, 54733,
         SigAt(2048, QuantumSig) \o <<<<2062 - 2048 + 2, <<108>>>>>>),
    File("quantum_short", 2049, 54731,
         SigAt(2049, QuantumSig) \o <<<<2062 - 2049 + 2, <<106>>>>>>),
    File("jmps4_tfmx", 4096, 2048,
         Jmps4(4128, 4160) \o TfmxSig(34) \o TfmxInit(66)),
    File("jmps4_tfmx_oob", 4096, 2048,
         Jmps4(4128, 12288) \o TfmxSig(34)),
    File("jmps4_pros", 4096, 2048,
         Jmps4(4128, 4160) \o ProsonixSig(34) \o ProsonixInit(66)),
    File("jmps4_pros_oob", 4096, 2048,
         Jmps4(4128, 12288) \o ProsonixSig(34)),
    File("jmps4_far", 4096, 2048,
         Jmps4(12288, 4160)),
    File("dmc4", 4096, 2048,
         Dmc4Sig),
    File("bjerre", 4096, 1536,
         JmpsTo(4160, 4126) \o BjerregaardSig(32)),
    File("bjerre_amp1", 4096, 1536,
         JmpsTo(4160, 4126) \o BjerregaardSig(32) \o Amp1Sig(768)),
    File("bjerre_play", 4096, 1536,
         <<<<2, <<76, 64, 16>>>>>> \o BjerregaardSig(32)),
    File("hv4_ok", 4096, 1792,
         HubbardV4Sig(6, 4606) \o HubbardV4Play(288) \o HubbardV4Init(336)),
    File("hv4_low", 4096, 1792,
         HubbardV4Sig(3, 4606) \o HubbardV4Play(288) \o HubbardV4Init(336)),
    File("hv4_noinit", 4096, 1792,
         HubbardV4Sig(6, 4606) \o HubbardV4Play(288)),
    File("hv4_oob", 4096, 1792,
         HubbardV4Sig(6, 4094)),
    File("mattgray", 4096, 512,
         MattGraySig(4096)),
    File("mattgray_cut", 65280, 512,
         MattGraySig(65280)),
    File("mattgray_low", 4, 512,
         MattGraySig(4)),
    File("griff2", 4096, 512,
         Griff2Sig),
    File("grgtiny2", 4096, 256,
         <<<<16, <<162, 14, 134>>>>, <<48, <<169, 96, 141, 0, 0, 162>>>>, <<32, <<172, 166, 2, 208>>>>>>),
    File("grgtiny2_oob", 4096, 256,
         <<<<16, <<162, 14, 134>>>>, <<4, <<169, 96, 141, 0, 0, 162>>>>>>),
    File("grgtiny4", 4096, 256,
         <<<<16, <<162, 14, 181, 0, 240, 0, 214, 0, 208>>>>, <<48, <<169, 0, 162, 20, 0, 0, 212>>>>>>),
    File("psid", 21328, 128,
         <<<<2, <<73, 68, 0, 2>>>>>>),
    File("rsid", 21330, 128,
         <<<<2, <<73, 68, 0, 2>>>>>>) }

ImageNamed(name) == CHOOSE f \in P2sImages : f.name = name

\* The command line.  argv[2] is given by its length and the number strtol
\* reads from it, argv[3] and argv[4] by their first character ("" when the
\* argument is absent or empty).  Title, author, release, songs and start
\* song (argv[5] to argv[9]) are not supplied.
Args(argc, len, value, sid, video) ==
    [argc |-> argc, load_addr |-> [len |-> len, value |-> value],
     sid |-> sid, video |-> video]

P2sRuns ==
    {<<Args(2, 0, 0, "", ""), f>> : f \in P2sImages \cup {Missing}}
    \cup {<<Args(1, 0, 0, "", ""), ImageNamed("generic66")>>}
    \cup {<<Args(3, 5, 4112, "", ""), ImageNamed(n)>> : n \in {"generic66", "generic2"}}
    \cup {<<Args(3, 5, j, "", ""), ImageNamed("generic66")>> :
              j \in {4096, 4097, 4159, 4160}}
    \cup {<<Args(3, 2, 50, "", ""), ImageNamed("generic_low")>>}
    \cup {<<Args(3, 5, 4864, "", ""), ImageNamed("amp1_ok")>>}
    \cup {<<Args(5, 1, 0, "8", v), ImageNamed("generic66")>> : v \in {"N", "n", "P"}}
    \cup {<<Args(4, 5, 4096, "6", ""), ImageNamed("fc")>>}

\* What lies next to the block calloc returns is not the program's to
\* choose: either zeros or bytes that happen to complete a signature.
Neighbours == {NoBytes,
               Lay(At(49152 - 50688 + 2, ReflexSig) \o TablePieces(af40)),
               Lay(<<<<1, <<32>>>>>>)}

\* ------------------------------------------------------------------------
\* p2s: main and Scanners as a state machine
\* ------------------------------------------------------------------------

\* the values of the file-scope variables when main starts
StartGlobals ==
    [p |-> 0, fsiz |-> 0, initaddr |-> 0, playaddr |-> 0, loadaddr |-> 0, extra |-> 0,
     ids |-> ids, psidh |-> psidh, extrabytes |-> extrabytes]

P2sStart ==
    \E run \in P2sRuns, around \in Neighbours, mapped \in BOOLEAN :
        /\ argv = run[1]
        /\ infile = run[2]
        /\ heap = [size |-> 0, bytes |-> around, mapped |-> mapped]
        /\ globals = StartGlobals
        /\ proc = [pc |-> "start", exit_code |-> -1, h |-> "none", hout |-> "none",
                   realp |-> "none"]
        /\ scanners = [x |-> 0, z |-> 0]
        /\ outfile = <<>>
        /\ calls = <<>>
        /\ scan0 = [g |-> StartGlobals, bytes |-> NoBytes]
        /\ bad = {}

\* if(argc<2): usage, return 1
Usage ==
    /\ proc.pc = "start"
    /\ argv.argc < 2
    /\ proc' = [proc EXCEPT !.pc = "exit", !.exit_code = 1]
    /\ UNCHANGED <<argv, infile, heap, globals, scanners, outfile, calls, scan0, bad>>
    /\ UNCHANGED <<packVars, sf2Vars>>

\* an open failure that returns 3
OpenInput_code3 ==
    /\ proc.pc = "start"
    /\ ~(argv.argc < 2)
    /\ IF ~infile.exists
       THEN proc' = [proc EXCEPT !.pc = "exit", !.exit_code = 3]
       ELSE proc' = [proc EXCEPT !.pc = "alloc", !.h = "open"]
    /\ UNCHANGED <<argv, infile, heap, globals, scanners, outfile, calls, scan0, bad>>
    /\ UNCHANGED <<packVars, sf2Vars>>

\* h=fopen(argv[1],"rb")
OpenInput ==
    /\ proc.pc = "start"
    /\ ~(argv.argc < 2)
    /\ IF ~infile.exists
       THEN proc' = [proc EXCEPT !.pc = "exit", !.exit_code = 2]
       ELSE proc' = [proc EXCEPT !.pc = "alloc", !.h = "open"]
    /\ UNCHANGED <<argv, infile, heap, globals, scanners, outfile, calls, scan0, bad>>
    /\ UNCHANGED <<packVars, sf2Vars>>

\* fsiz=ftell(h); realp=calloc(fsiz,1); fread; fclose
ReadInput ==
    /\ proc.pc = "alloc"
    /\ globals' = [globals EXCEPT !.fsiz = infile.size, !.p = 0]
    /\ \/ /\ proc' = [proc EXCEPT !.pc = "exit", !.exit_code = 3, !.h = "closed"]
          /\ UNCHANGED heap
       \/ /\ proc' = [proc EXCEPT !.pc = "marker", !.h = "closed", !.realp = "allocated"]
          /\ heap' = [heap EXCEPT
                         !.size = infile.size,
                         !.bytes = [y \in DOMAIN infile.bytes
                                          \cup {a \in DOMAIN @ : a < 0 \/ a >= infile.size} |->
                                       IF y \in DOMAIN infile.bytes
                                       THEN infile.bytes[y] ELSE @[y]]]
    /\ UNCHANGED <<argv, infile, scanners, outfile, calls, scan0, bad>>
    /\ UNCHANGED <<packVars, sf2Vars>>

\* the marker test without the alternative 'R'
AlreadySid_onlyP(g, h) ==
    /\ Peek(g, h, P_MARKER + 0) = g.psidh[P_MARKER + 1]
    /\ Peek(g, h, P_MARKER + 1) = g.psidh[P_MARKER + 2]
    /\ Peek(g, h, P_MARKER + 2) = g.psidh[P_MARKER + 3]
    /\ Peek(g, h, P_MARKER + 3) = g.psidh[P_MARKER + 4]

\* the input starts with the marker of a .SID file
AlreadySid(g, h) ==
    /\ Peek(g, h, P_MARKER + 0) \in {g.psidh[P_MARKER + 1], 82}      \* 'R'
    /\ Peek(g, h, P_MARKER + 1) = g.psidh[P_MARKER + 2]
    /\ Peek(g, h, P_MARKER + 2) = g.psidh[P_MARKER + 3]
    /\ Peek(g, h, P_MARKER + 3) = g.psidh[P_MARKER + 4]

CheckMarker ==
    /\ proc.pc = "marker"
    /\ IF AlreadySid(globals, heap)
       THEN proc' = [proc EXCEPT !.pc = "exit", !.exit_code = 2, !.realp = "freed"]
       ELSE proc' = [proc EXCEPT !.pc = "create"]
    /\ UNCHANGED <<argv, infile, heap, globals, scanners, outfile, calls, scan0, bad>>
    /\ UNCHANGED <<packVars, sf2Vars>>

\* an output creation failure that returns without free(realp)
CreateOutput_nofree ==
    /\ proc.pc = "create"
    /\ \/ proc' = [proc EXCEPT !.pc = "exit", !.exit_code = 4]
       \/ proc' = [proc EXCEPT !.pc = "args", !.hout = "open"]
    /\ UNCHANGED <<argv, infile, heap, globals, scanners, outfile, calls, scan0, bad>>
    /\ UNCHANGED <<packVars, sf2Vars>>

\* hout=fopen(newfile,"wb")
CreateOutput ==
    /\ proc.pc = "create"
    /\ \/ proc' = [proc EXCEPT !.pc = "exit", !.exit_code = 4, !.realp = "freed"]
       \/ proc' = [proc EXCEPT !.pc = "args", !.hout = "open"]
    /\ UNCHANGED <<argv, infile, heap, globals, scanners, outfile, calls, scan0, bad>>
    /\ UNCHANGED <<packVars, sf2Vars>>

\* the trim with the upper end of the interval included
TrimTo_upto(g, h, a) ==
    LET j == a.load_addr.value
    IN  IF (a.argc > 2) /\ (a.load_addr.len > 2)
           /\ (j > g.loadaddr) /\ (j <= (g.loadaddr + g.fsiz - 2))
        THEN LET k == j - g.loadaddr
                 g1 == [g EXCEPT !.p = @ + k, !.fsiz = @ - k, !.loadaddr = j]
             IN  [g |-> g1, h |-> PokeAll(g1, h, 0, <<j % 256, j \div 256>>)]
        ELSE [g |-> g, h |-> h]

\* load_addr: start ripping from this address
TrimTo(g, h, a) ==
    LET j == a.load_addr.value
    IN  IF (a.argc > 2) /\ (a.load_addr.len > 2)
           /\ (j > g.loadaddr) /\ (j < (g.loadaddr + g.fsiz - 2))
        THEN LET k == j - g.loadaddr
                 g1 == [g EXCEPT !.p = @ + k, !.fsiz = @ - k, !.loadaddr = j]
             IN  [g |-> g1, h |-> PokeAll(g1, h, 0, <<j % 256, j \div 256>>)]
        ELSE [g |-> g, h |-> h]

\* 6/8 and P/N
SidModel(model, a) ==
    LET m1 == IF (a.argc > 3) /\ a.sid = "8" THEN BitAnd(model, 15) + 32 ELSE model
    IN  IF (a.argc > 4) /\ a.video \in {"N", "n"} THEN BitAnd(m1, 240) + 8 ELSE m1

\* from loadaddr=p[0]|p[1]<<8 to the call of Scanners
ParseArgs ==
    /\ proc.pc = "args"
    /\ LET g0 == [globals EXCEPT !.loadaddr = Peek(globals, heap, 0)
                                              + 256 * Peek(globals, heap, 1)]
           t  == TrimTo(g0, heap, argv)
           g1 == [t.g EXCEPT !.psidh[P_SIDMODEL + 1] = SidModel(@, argv)]
           g2 == DefaultEntry(g1)
       IN  /\ globals' = g2
           /\ heap' = t.h
           /\ scan0' = [g |-> g2, bytes |-> t.h.bytes]
    /\ scanners' = [x |-> 0, z |-> 0]
    /\ proc' = [proc EXCEPT !.pc = "scan"]
    /\ UNCHANGED <<argv, infile, outfile, calls, bad>>
    /\ UNCHANGED <<packVars, sf2Vars>>

\* a loop that never leaves early
Break_never(zz) == FALSE

\* if( z ) break;
Break(zz) == zz # 0

\* the indices of acc that are not payload indices
OutOfPayload(g, acc) == {n \in acc : n < 0 \/ n >= g.fsiz}

\* the indices of acc that are not inside the allocated block
OutOfBlock(g, h, acc) == {n \in acc : g.p + n < 0 \/ g.p + n >= h.size}

\* one iteration of the loop of Scanners: z=(ScanFunc[x])()
ScanStep ==
    /\ proc.pc = "scan"
    /\ scanners.x < Len(ScanFunc)
    /\ ~Break(scanners.z)
    /\ \E r \in {CallCheck(scanners.x, globals, heap)} :
           /\ calls' = Append(calls, scanners.x)
           /\ bad' = bad \cup {<<scanners.x, n>> : n \in OutOfPayload(globals, r.acc)}
           /\ IF OutOfBlock(globals, heap, r.acc) # {} /\ ~heap.mapped
              THEN \* the access faults: the process is killed
                   /\ proc' = [proc EXCEPT !.pc = "killed"]
                   /\ UNCHANGED <<globals, heap, scanners>>
              ELSE /\ globals' = r.g
                   /\ heap' = r.h
                   /\ scanners' = [x |-> IF Break(r.ret) THEN scanners.x ELSE scanners.x + 1,
                                   z |-> r.ret]
                   /\ UNCHANGED proc
    /\ UNCHANGED <<argv, infile, outfile, scan0>>
    /\ UNCHANGED <<packVars, sf2Vars>>

\* Scanners returns
ScanReturn ==
    /\ proc.pc = "scan"
    /\ ~(scanners.x < Len(ScanFunc)) \/ Break(scanners.z)
    /\ proc' = [proc EXCEPT !.pc = "write"]
    /\ UNCHANGED <<argv, infile, heap, globals, scanners, outfile, calls, scan0, bad>>
    /\ UNCHANGED <<packVars, sf2Vars>>

\* the two addresses stored low byte first
HeaderFor_le(g) ==
    [g.psidh EXCEPT ![P_INITADDR + 1] = g.initaddr % 256,
                    ![P_INITADDR + 2] = (g.initaddr \div 256) % 256,
                    ![P_PLAYADDR + 1] = g.playaddr % 256,
                    ![P_PLAYADDR + 2] = (g.playaddr \div 256) % 256]

\* psidh[P_INITADDR+0]=initaddr>>8; ... psidh[P_PLAYADDR+1]=playaddr&0xff
HeaderFor(g) ==
    [g.psidh EXCEPT ![P_INITADDR + 1] = (g.initaddr \div 256) % 256,
                    ![P_INITADDR + 2] = g.initaddr % 256,
                    ![P_PLAYADDR + 1] = (g.playaddr \div 256) % 256,
                    ![P_PLAYADDR + 2] = g.playaddr % 256]

\* the load address main derives from the prepend bytes
FinalLoadAddr(g, h) ==
    IF g.extra = 0 THEN g.loadaddr
    ELSE IF g.extra = 1 THEN g.extrabytes[1] + 256 * Peek(g, h, 0)
    ELSE g.extrabytes[1] + 256 * g.extrabytes[2]

\* fsiz after the cut at the end of the 64K address space
FinalSize(g, h) ==
    LET j == g.fsiz + FinalLoadAddr(g, h) + g.extra - 2
    IN  IF j > 65535 THEN g.fsiz - (j - 65536) ELSE g.fsiz

\* how far past the end of the block a read that overruns it may get
MaxOverrun == 2

\* fwrite(p,fsiz,1,hout).  A negative fsiz converts to a size_t near 2^64:
\* fwrite then reads from p to the end of the block and beyond it, and how
\* much of that reaches the file before the write fails is not defined.
Payload(g, h, fs, over) ==
    IF fs >= 0 THEN [n \in 1..fs |-> Peek(g, h, n - 1)]
    ELSE [n \in 1..(h.size - g.p + over) |-> Peek(g, h, n - 1)]

\* the three fwrite calls
WrittenBytes(g, h, over) ==
    HeaderFor(g)
    \o (IF g.extra # 0 THEN SubSeq(g.extrabytes, 1, g.extra) ELSE <<>>)
    \o Payload(g, h, FinalSize(g, h), over)

\* from the printf after Scanners to return 0
WriteOutput ==
    /\ proc.pc = "write"
    /\ globals' = [globals EXCEPT !.psidh = HeaderFor(globals),
                                  !.loadaddr = FinalLoadAddr(globals, heap),
                                  !.fsiz = FinalSize(globals, heap)]
    /\ \E over \in IF FinalSize(globals, heap) >= 0 THEN {0} ELSE 0..MaxOverrun :
          IF over > 0 /\ ~heap.mapped
          THEN \* the read past the block faults: the process is killed
               \* with the header still in the stream's buffer
               /\ UNCHANGED outfile
               /\ proc' = [proc EXCEPT !.pc = "killed"]
          ELSE /\ outfile' = WrittenBytes(globals, heap, over)
               /\ proc' = [proc EXCEPT !.pc = "exit", !.exit_code = 0,
                                       !.hout = "closed", !.realp = "freed"]
    /\ UNCHANGED <<argv, infile, heap, scanners, calls, scan0, bad>>
    /\ UNCHANGED <<packVars, sf2Vars>>

\* sf2pack is not running
PackIdle ==
    /\ config = <<>>
    /\ input_memory = <<>>
    /\ memory = <<>>
    /\ pack_pc = "idle"
    /\ address = 0
    /\ decoded = {}
    /\ walked = <<>>
    /\ data_end = 0
    /\ data_size = 0
    /\ ci = 0
    /\ packed_data = <<>>

P2sInit == P2sStart /\ PackIdle /\ Sf2Idle

P2sNext ==
    \/ Usage
    \/ OpenInput
    \/ ReadInput
    \/ CheckMarker
    \/ CreateOutput
    \/ ParseArgs
    \/ ScanStep
    \/ ScanReturn
    \/ WriteOutput

P2sSpec == P2sInit /\ [][P2sNext]_vars

\* ------------------------------------------------------------------------
\* sf2pack: C64Memory::LoadFromPRG, PSIDFile and main
\* ------------------------------------------------------------------------

\* DefaultDriverConfig::INIT_OFFSET
INIT_OFFSET == 0

\* DefaultDriverConfig::PLAY_OFFSET
PLAY_OFFSET == 3

\* sizeof(PSIDHeader)
PSIDHeaderSize == 124

\* C64Memory::LoadFromPRG with bytes 1.. taken as the data
LoadFromPRG_from1(m, prg_data) ==
    LET prg_size == Len(prg_data)
        load_address == U16(prg_data[1] + 256 * prg_data[2])
        size == prg_size - 2
    IN  IF prg_size < 3 THEN [ok |-> FALSE, m |-> m]
        ELSE IF load_address + size > 65536 THEN [ok |-> FALSE, m |-> m]
        ELSE [ok |-> TRUE,
              m |-> Place(m, load_address, SubSeq(prg_data, 2, prg_size - 1))]

\* C64Memory::LoadFromPRG on the memory m: the result and the memory after
LoadFromPRG(m, prg_data) ==
    LET prg_size == Len(prg_data)
        load_address == U16(prg_data[1] + 256 * prg_data[2])
        size == prg_size - 2
    IN  IF prg_size < 3 THEN [ok |-> FALSE, m |-> m]
        ELSE IF load_address + size > 65536 THEN [ok |-> FALSE, m |-> m]
        ELSE [ok |-> TRUE,
              m |-> Place(m, load_address, SubSeq(prg_data, 3, prg_size))]

\* PSIDFile::EndianConvert that returns its argument
EndianConvert_id(value) == value

\* PSIDFile::EndianConvert: (value >> 8) | (value << 8) as unsigned short
EndianConvert(value) == U16((value \div 256) + (value * 256))

\* the bytes of an unsigned short in the object (little-endian host)
Stored16(v) == <<v % 256, v \div 256>>

\* the bytes of an unsigned int in the object (little-endian host)
Stored32(v) == <<v % 256, (v \div 256) % 256, (v \div 65536) % 256, v \div 16777216>>

\* PSIDFile::CopyString: size bytes, the string padded with 0 or cut
CopyString(src, size) == [i \in 1..size |-> IF i <= Len(src) THEN src[i] ELSE 0]

\* PSIDFile::InitializeHeader
InitializeHeader ==
    [magic        |-> <<80, 83, 73, 68>>,            \* 'P' 'S' 'I' 'D'
     version      |-> EndianConvert(2),
     data_offset  |-> EndianConvert(124),
     load_address |-> 0,
     init_address |-> 0,
     play_address |-> 0,
     song_count   |-> EndianConvert(1),
     default_song |-> EndianConvert(1),
     speed_flags  |-> 0,
     title        |-> CopyString(<<>>, 32),
     author       |-> CopyString(<<>>, 32),
     copyright    |-> CopyString(<<>>, 32),
     flags        |-> EndianConvert(20),
     start_page   |-> 0,
     page_length  |-> 0,
     second_sid   |-> 0,
     third_sid    |-> 0]

\* the 124 bytes of the packed struct PSIDHeader
HeaderBytes(h) ==
    h.magic \o Stored16(h.version) \o Stored16(h.data_offset)
    \o Stored16(h.load_address) \o Stored16(h.init_address) \o Stored16(h.play_address)
    \o Stored16(h.song_count) \o Stored16(h.default_song) \o Stored32(h.speed_flags)
    \o h.title \o h.author \o h.copyright
    \o Stored16(h.flags)
    \o <<h.start_page, h.page_length, h.second_sid, h.third_sid>>

\* PSIDFile::CreateFromPRG on the object f: the result and the object after
CreateFromPRG(f, prg_data, init_offset, play_offset) ==
    IF Len(prg_data) < 3 THEN [ok |-> FALSE, f |-> f]
    ELSE LET load_address == U16(prg_data[1] + 256 * prg_data[2])
         IN  [ok |-> TRUE,
              f |-> [header |-> [f.header EXCEPT
                                    !.load_address = 0,
                                    !.init_address = EndianConvert(U16(load_address + init_offset)),
                                    !.play_address = EndianConvert(U16(load_address + play_offset))],
                     prg_data |-> prg_data]]

\* PSIDFile::GetPSIDData, the bytes WriteToFile hands to the stream
GetPSIDData(f) == HeaderBytes(f.header) \o f.prg_data

\* std::stoul(s, nullptr, 0) for the numerals of the model; any other
\* string makes it throw std::invalid_argument
Numerals ==
    [s \in {"0x1000", "0x0D7E", "0xF7FF", "0xFFFD", "0x11000", "0x40", "0x102"} |->
        CASE s = "0x1000"  -> 4096
          [] s = "0x0D7E"  -> 3454
          [] s = "0xF7FF"  -> 63487
          [] s = "0xFFFD"  -> 65533
          [] s = "0x11000" -> 69632
          [] s = "0x40"    -> 64
          [] s = "0x102"   -> 258]

\* the characters of the metadata strings of the model
Chars ==
    [s \in {"", "Hi"} |-> IF s = "Hi" THEN <<72, 105>> ELSE <<>>]

\* Options as default-constructed
DefaultOptions ==
    [address |-> DefaultAddress, zp |-> DefaultZp,
     title |-> "", author |-> "", copyright |-> "", verbose |-> FALSE]

\* ParseArguments: the loop over argv[i], i = 3 .. argc - 1 (args[i + 1] is
\* argv[i]); thrown is the std::invalid_argument of std::stoul
RECURSIVE ParseFrom(_, _, _)
ParseFrom(args, i, o) ==
    LET argc == Len(args)
        arg == args[i + 1]
        more == i + 1 < argc
    IN  IF ~(i < argc) THEN [ok |-> TRUE, thrown |-> FALSE, options |-> o]
        ELSE IF arg = "--address" /\ more
        THEN IF args[i + 2] \in DOMAIN Numerals
             THEN ParseFrom(args, i + 2, [o EXCEPT !.address = U16(Numerals[args[i + 2]])])
             ELSE [ok |-> FALSE, thrown |-> TRUE, options |-> o]
        ELSE IF arg = "--zp" /\ more
        THEN IF args[i + 2] \in DOMAIN Numerals
             THEN ParseFrom(args, i + 2, [o EXCEPT !.zp = U8(Numerals[args[i + 2]])])
             ELSE [ok |-> FALSE, thrown |-> TRUE, options |-> o]
        ELSE IF arg = "--title" /\ more
        THEN ParseFrom(args, i + 2, [o EXCEPT !.title = args[i + 2]])
        ELSE IF arg = "--author" /\ more
        THEN ParseFrom(args, i + 2, [o EXCEPT !.author = args[i + 2]])
        ELSE IF arg = "--copyright" /\ more
        THEN ParseFrom(args, i + 2, [o EXCEPT !.copyright = args[i + 2]])
        ELSE IF arg = "-v" \/ arg = "--verbose"
        THEN ParseFrom(args, i + 1, [o EXCEPT !.verbose = TRUE])
        ELSE [ok |-> FALSE, thrown |-> FALSE, options |-> o]

\* ParseArguments(argc, argv, options)
ParseArguments(args) ==
    IF Len(args) < 3 THEN [ok |-> FALSE, thrown |-> FALSE, options |-> DefaultOptions]
    ELSE ParseFrom(args, 3, DefaultOptions)

\* ------------------------------------------------------------------------
\* Inputs of sf2pack: command lines and input files
\* ------------------------------------------------------------------------

\* a command line: program, input, output and the options
Cmd(opts) == <<"sf2pack", "in.sf2", "out.sid">> \o opts

\* an input file with the given bytes
Sf2File(bytes) == [exists |-> TRUE, bytes |-> bytes]

\* no input file of that name
Sf2Missing == [exists |-> FALSE, bytes |-> <<>>]

\* a PRG at the driver's top that begins with LDA $0E00
DriverAbs == <<126, 13, 173, 0, 14>>

\* a PRG at the driver's top that begins with LDA $05
DriverZp == <<126, 13, 165, 5>>

\* a PRG whose two data bytes end at the last address of the memory
TopFits == <<254, 255, 1, 2>>

\* a PRG whose second data byte lies beyond the last address of the memory
TopOver == <<255, 255, 1, 2>>

Sf2Runs ==
    \* command lines ParseArguments refuses or that make std::stoul throw
    { <<args, Sf2File(DriverAbs)>> :
        args \in { <<"sf2pack">>, <<"sf2pack", "in.sf2">>,
                   Cmd(<<"--help">>), Cmd(<<"-x">>), Cmd(<<"--address">>),
                   Cmd(<<"--address", "top">>), Cmd(<<"--zp", "low">>) } }
    \cup
    \* files main or LoadFromPRG refuses
    { <<Cmd(<<>>), f>> :
        f \in { Sf2Missing, Sf2File(<<>>), Sf2File(<<126>>), Sf2File(<<126, 13>>),
                Sf2File(TopOver) } }
    \cup
    \* conversions
    { <<Cmd(<<>>), Sf2File(DriverAbs)>>,
      <<Cmd(<<>>), Sf2File(TopFits)>>,
      <<Cmd(<<"--address", "0x0D7E">>), Sf2File(DriverAbs)>>,
      <<Cmd(<<"--address", "0xF7FF", "-v">>), Sf2File(DriverAbs)>>,
      <<Cmd(<<"--address", "0xFFFD">>), Sf2File(DriverAbs)>>,
      <<Cmd(<<"--address", "0x11000", "--author", "Hi">>), Sf2File(DriverZp)>>,
      <<Cmd(<<"--zp", "0x40", "--title", "Hi", "--copyright", "Hi">>), Sf2File(DriverZp)>>,
      <<Cmd(<<"--zp", "0x102", "--verbose">>), Sf2File(DriverZp)>> }

\* ------------------------------------------------------------------------
\* main of sf2pack as a state machine
\* ------------------------------------------------------------------------

Sf2Start ==
    \E run \in Sf2Runs :
        /\ cmdline = run[1]
        /\ sf2_file = run[2]
        /\ options = DefaultOptions
        /\ sf2main = [pc |-> "parse", exit_code |-> -1]
        /\ psid = [header |-> InitializeHeader, prg_data |-> <<>>]
        /\ sid_file = [exists |-> FALSE, bytes |-> <<>>]

\* main: ParseArguments; PrintUsage and return 1, or return 1 from the
\* catch block when std::stoul throws
Sf2Parse ==
    /\ sf2main.pc = "parse"
    /\ LET r == ParseArguments(cmdline)
       IN  /\ options' = r.options
           /\ sf2main' = IF r.ok THEN [sf2main EXCEPT !.pc = "load"]
                         ELSE [sf2main EXCEPT !.pc = "exit", !.exit_code = 1]
    /\ UNCHANGED <<cmdline, sf2_file, psid, sid_file>>
    /\ UNCHANGED <<packVars, p2sVars>>

\* main, steps 1 to 3: ReadFile, the size test, LoadFromPRG into a new
\* C64Memory, the DriverConfig, and the entry into PackerSimple::Pack
Sf2Load ==
    /\ sf2main.pc = "load"
    /\ LET sf2_data == sf2_file.bytes
           loaded == LoadFromPRG(ClearedMemory, sf2_data)
       IN  IF ~sf2_file.exists \/ Len(sf2_data) < 3 \/ ~loaded.ok
           THEN /\ sf2main' = [sf2main EXCEPT !.pc = "exit", !.exit_code = 1]
                /\ UNCHANGED packVars
           ELSE /\ sf2main' = [sf2main EXCEPT !.pc = "pack"]
                /\ config' = [driver_code_top |-> DRIVER_CODE_TOP,
                              driver_code_size |-> DRIVER_CODE_SIZE,
                              current_lowest_zp |-> CURRENT_LOWEST_ZP,
                              target_lowest_zp |-> options.zp,
                              destination_address |-> options.address]
                /\ input_memory' = loaded.m
                /\ memory' = loaded.m
                /\ pack_pc' = "walk"
                /\ address' = DRIVER_CODE_TOP
                /\ walked' = ClearedMemory
                /\ UNCHANGED <<decoded, data_end, data_size, ci, packed_data>>
    /\ UNCHANGED <<cmdline, sf2_file, options, psid, sid_file>>
    /\ UNCHANGED p2sVars

\* main, step 5: Pack has returned or thrown; CreateFromPRG and the metadata
Sf2Create ==
    /\ sf2main.pc = "pack"
    /\ pack_pc \in {"done", "error"}
    /\ LET r  == CreateFromPRG(psid, packed_data, INIT_OFFSET, PLAY_OFFSET)
           h1 == r.f.header
           h2 == IF options.title # ""
                 THEN [h1 EXCEPT !.title = CopyString(Chars[options.title], 32)] ELSE h1
           h3 == IF options.author # ""
                 THEN [h2 EXCEPT !.author = CopyString(Chars[options.author], 32)] ELSE h2
           h4 == IF options.copyright # ""
                 THEN [h3 EXCEPT !.copyright = CopyString(Chars[options.copyright], 32)] ELSE h3
       IN  IF pack_pc = "error" \/ ~r.ok
           THEN /\ sf2main' = [sf2main EXCEPT !.pc = "exit", !.exit_code = 1]
                /\ UNCHANGED psid
           ELSE /\ sf2main' = [sf2main EXCEPT !.pc = "write"]
                /\ psid' = [r.f EXCEPT !.header = h4]
    /\ UNCHANGED <<cmdline, sf2_file, options, sid_file>>
    /\ UNCHANGED <<packVars, p2sVars>>

\* main, step 6: WriteToFile; the file cannot be created (return 1), the
\* stream fails after n bytes (return 1), or all bytes are written (return 0)
Sf2Write ==
    /\ sf2main.pc = "write"
    /\ \/ /\ sf2main' = [sf2main EXCEPT !.pc = "exit", !.exit_code = 1]
          /\ UNCHANGED sid_file
       \/ /\ sf2main' = [sf2main EXCEPT !.pc = "exit", !.exit_code = 1]
          /\ \E n \in {0, PSIDHeaderSize} :
                sid_file' = [exists |-> TRUE, bytes |-> SubSeq(GetPSIDData(psid), 1, n)]
       \/ /\ sf2main' = [sf2main EXCEPT !.pc = "exit", !.exit_code = 0]
          /\ sid_file' = [exists |-> TRUE, bytes |-> GetPSIDData(psid)]
    /\ UNCHANGED <<cmdline, sf2_file, options, psid>>
    /\ UNCHANGED <<packVars, p2sVars>>

Sf2Init == Sf2Start /\ PackIdle /\ P2sIdle

Sf2Next ==
    \/ Sf2Parse
    \/ Sf2Load
    \/ WalkStep
    \/ WalkEnd
    \/ FindEnd
    \/ CopyStep
    \/ ClearOld
    \/ Export
    \/ Sf2Create
    \/ Sf2Write

Sf2Spec == Sf2Init /\ [][Sf2Next]_vars

\* ------------------------------------------------------------------------
\* Properties of the relocator
\* ------------------------------------------------------------------------

AbsModes == {"ABS", "ABX", "ABY", "IND"}

ZpModes == {"ZP", "ZPX", "ZPY", "IZX", "IZY"}

ModeOf(d) == opcode_table[d[2] + 1][2]

\* little-endian operand of the decoded instruction d in the memory m
OperandWord(m, d) == GetByte(m, d[1] + 1) + 256 * GetByte(m, d[1] + 2)

InRomWindow(v) == v \in 53248..57343

\* C1: when ProcessDriverCode has returned, every decoded ABS/ABX/ABY/IND
\* instruction whose original operand V lies outside $D000-$DFFF holds
\* (V + destination_address - driver_code_top) mod $10000 in its operand bytes.
C1_AbsOperandRelocated ==
    pack_pc = "walked" =>
        \A d \in decoded :
            (ModeOf(d) \in AbsModes /\ ~InRomWindow(OperandWord(input_memory, d)))
            => OperandWord(memory, d) =
                 (OperandWord(input_memory, d) + config.destination_address
                    - config.driver_code_top) % 65536

\* C1 witness: the walk is over and has moved an absolute operand
C1_Witness ==
    /\ pack_pc = "walked"
    /\ \E d \in decoded :
          /\ ModeOf(d) \in AbsModes
          /\ ~InRomWindow(OperandWord(input_memory, d))
          /\ OperandWord(memory, d) # OperandWord(input_memory, d)

\* C2: when ProcessDriverCode has returned, every decoded ABS/ABX/ABY/IND
\* instruction whose original operand lies in $D000-$DFFF has its two
\* operand bytes unchanged.
C2_RomOperandKept ==
    pack_pc = "walked" =>
        \A d \in decoded :
            (ModeOf(d) \in AbsModes /\ InRomWindow(OperandWord(input_memory, d)))
            => /\ GetByte(memory, d[1] + 1) = GetByte(input_memory, d[1] + 1)
               /\ GetByte(memory, d[1] + 2) = GetByte(input_memory, d[1] + 2)

\* C2 witness: the walk is over, the driver is being moved and an instruction
\* with an operand in the window was decoded
C2_Witness ==
    /\ pack_pc = "walked"
    /\ config.destination_address # config.driver_code_top
    /\ \E d \in decoded :
          ModeOf(d) \in AbsModes /\ InRomWindow(OperandWord(input_memory, d))

\* C3: when ProcessDriverCode has returned, every decoded ZP/ZPX/ZPY/IZX/IZY
\* instruction with original operand byte z holds
\* (target_lowest_zp + (z - current_lowest_zp)) mod 256 in its operand byte.
C3_ZpOperandRebased ==
    pack_pc = "walked" =>
        \A d \in decoded :
            ModeOf(d) \in ZpModes
            => GetByte(memory, d[1] + 1) =
                 (config.target_lowest_zp
                    + (GetByte(input_memory, d[1] + 1) - config.current_lowest_zp)) % 256

\* C3 witness: the walk is over and has rebased a zero page operand that lies
\* below the current base (the difference wraps)
C3_Witness ==
    /\ pack_pc = "walked"
    /\ config.target_lowest_zp # config.current_lowest_zp
    /\ \E d \in decoded :
          /\ ModeOf(d) \in ZpModes
          /\ GetByte(input_memory, d[1] + 1) < config.current_lowest_zp
          /\ GetByte(memory, d[1] + 1) # GetByte(input_memory, d[1] + 1)

\* C4: when destination_address differs from driver_code_top, the PRG that
\* Pack returns holds, for every i below the used size, the byte that stood
\* at driver_code_top + i when the walk finished.
C4_WindowMoved ==
    (pack_pc = "done" /\ config.destination_address # config.driver_code_top) =>
        \A n \in 0..(data_size - 1) :
            /\ packed_data[n + 3] = GetByte(walked, config.driver_code_top + n)
            /\ GetByte(memory, (config.destination_address + n) % 65536)
                 = GetByte(walked, config.driver_code_top + n)

ReleaseRun ==
    /\ pack_pc = "done"
    /\ config.driver_code_top = 3454
    /\ config.driver_code_size = 2048
    /\ config.current_lowest_zp = 2
    /\ config.destination_address = 4096

BytesAt(m, a, bs) == \A n \in 1..Len(bs) : GetByte(m, a + n - 1) = bs[n]

\* C5: with the release configuration the PRG returned by Pack has load
\* address $1000 and begins with the relocated form of the instruction that
\* stood at $0D7E: AD 00 0E -> AD 82 10, AD 18 D4 -> AD 18 D4 and, with
\* target zp $40, A5 05 -> A5 43.
C5_ReleaseScenarios ==
    ReleaseRun =>
        /\ packed_data[1] = 0 /\ packed_data[2] = 16
        /\ BytesAt(input_memory, 3454, <<173, 0, 14>>)
             => SubSeq(packed_data, 3, 5) = <<173, 130, 16>>
        /\ BytesAt(input_memory, 3454, <<173, 24, 212>>)
             => SubSeq(packed_data, 3, 5) = <<173, 24, 212>>
        /\ (BytesAt(input_memory, 3454, <<165, 5>>) /\ config.target_lowest_zp = 64)
             => SubSeq(packed_data, 3, 4) = <<165, 67>>

\* C6: the walk ends with its cursor exactly at driver_code_top +
\* driver_code_size, and no decoded instruction has a byte at or beyond it.
C6_WalkEndsAtBottom ==
    pack_pc # "walk" =>
        /\ address = config.driver_code_top + config.driver_code_size
        /\ \A d \in decoded :
              d[1] + opcode_table[d[2] + 1][1]
                 <= config.driver_code_top + config.driver_code_size


\* the size the claim gives to an addressing mode
SizeOfMode(mode) ==
    IF mode \in AbsModes THEN 3
    ELSE IF mode \in ZpModes \cup {"IMM", "REL"} THEN 2
    ELSE 1

\* ProcessDriverCode has thrown one of its two size errors: the walk stopped
\* before Pack went on to look for the end of the data
WalkThrew == pack_pc = "error" /\ data_end = 0

\* C27: each of the 256 entries of the opcode table has the size of its
\* mode (3 for ABS/ABX/ABY/IND, 2 for ZP/ZPX/ZPY/IZX/IZY/IMM/REL, 1 for
\* IMP), so ProcessDriverCode throws neither of its size errors.
C27_TableSizes ==
    /\ decoded = {} =>
          \A opcode \in 0..255 :
             /\ GetOpcodeAddressingMode(opcode) \in AbsModes \cup ZpModes \cup {"IMM", "REL", "IMP"}
             /\ GetOpcodeSize(opcode) = SizeOfMode(GetOpcodeAddressingMode(opcode))
             /\ ~SizeMismatch(opcode)
    /\ ~WalkThrew
    /\ pack_pc = "walked" => \A d \in decoded : ~SizeMismatch(d[2])

\* C27 witness: a walk that decoded an absolute and a zero page instruction
\* has come to its end
C27_Witness ==
    /\ pack_pc = "walked"
    /\ \E d \in decoded : ModeOf(d) \in AbsModes
    /\ \E d \in decoded : ModeOf(d) \in ZpModes

\* the addresses of the code region
CodeRegion == config.driver_code_top .. (config.driver_code_top + config.driver_code_size - 1)

\* the operand bytes of the decoded absolute and zero page instructions
PatchedOperands ==
    UNION { (d[1] + 1) .. (d[1] + GetOpcodeSize(d[2]) - 1) :
              d \in {x \in decoded : ModeOf(x) \in AbsModes \cup ZpModes} }

\* C28: the walk changes nothing but operand bytes of decoded absolute and
\* zero page instructions: bytes outside the code region, opcode bytes and
\* the bytes of decoded IMP, IMM and REL instructions are as they were.
C28_WalkFrame ==
    pack_pc = "walked" =>
        \A a \in DOMAIN input_memory \cup DOMAIN walked :
            GetByte(walked, a) # GetByte(input_memory, a) =>
                /\ a \in CodeRegion
                /\ a \in PatchedOperands
                /\ a \notin {d[1] : d \in decoded}

\* ------------------------------------------------------------------------
\* Properties of p2s
\* ------------------------------------------------------------------------

\* main has returned 0
Succeeded == proc.pc = "exit" /\ proc.exit_code = 0

\* the block as it was when Scanners was called
Heap0 == [heap EXCEPT !.bytes = scan0.bytes]

\* the check of index x called on its own on the input Scanners received
Standalone(x) == CallCheck(x, scan0.g, Heap0)

\* the checks that match the input
WouldMatch == {x \in 0..(Len(ScanFunc) - 1) : Standalone(x).ret # 0}

\* the big-endian 16-bit field of the written header at offset off
HeaderWord(off) == outfile[off + 1] * 256 + outfile[off + 2]

\* C7: after a successful run on an input that two or more checks would
\* match, the checks called are exactly those up to the first of them, each
\* once and in ScanFunc order, and the identity, the init and play addresses,
\* the header, the prepend bytes and the payload are what that first check
\* produces on the input.
C7_FirstMatchWins ==
    (Succeeded /\ Cardinality(WouldMatch) >= 2) =>
        LET i == Min(WouldMatch)
            r == Standalone(i)
        IN  /\ calls = [n \in 1..(i + 1) |-> n - 1]
            /\ scanners.x = i
            /\ globals.ids = r.g.ids
            /\ globals.initaddr = r.g.initaddr
            /\ globals.playaddr = r.g.playaddr
            /\ globals.extra = r.g.extra
            /\ SubSeq(outfile, 1, 124) = HeaderFor(r.g)
            /\ SubSeq(outfile, 124 + 1, 124 + r.g.extra)
                 = SubSeq(r.g.extrabytes, 1, r.g.extra)
            /\ heap.bytes = r.h.bytes
            /\ \A n \in 1..globals.fsiz :
                  outfile[124 + r.g.extra + n] = Peek(r.g, r.h, n - 1)

\* C7 witness: a successful run on an input that two checks match, where
\* checks that do not match come before the first of them and the later one
\* would have made a different file
C7_Witness ==
    /\ Succeeded
    /\ Cardinality(WouldMatch) >= 2
    /\ Min(WouldMatch) > 0
    /\ \E j \in WouldMatch : Standalone(j).g.extra # globals.extra

\* every check was called and returned 0, and main returned 0
NoCheckMatched ==
    /\ Succeeded
    /\ Len(calls) = Len(ScanFunc)
    /\ scanners.z = 0

\* identity, prepend and payload of the output when no check matched
GenericOutput ==
    /\ HeaderWord(P_INITADDR) = scan0.g.loadaddr
    /\ globals.ids = "Generic"
    /\ globals.extra = 0
    /\ Len(outfile) = 124 + globals.fsiz
    /\ \A n \in 1..globals.fsiz : outfile[124 + n] = Peek(scan0.g, Heap0, n - 1)

\* C8 as stated: when every check returns 0 the header holds InitAddress = L
\* and PlayAddress = L + 3, the identity is "Generic", nothing is prepended
\* and the payload bytes are written as they were read.
C8_GenericDefaults_AsStated ==
    NoCheckMatched =>
        /\ GenericOutput
        /\ HeaderWord(P_PLAYADDR) = scan0.g.loadaddr + 3

\* C8: when every check returns 0 the header holds InitAddress = L and
\* PlayAddress = (L + 3) mod $10000, the identity is "Generic", nothing is
\* prepended and the payload bytes are written as they were read.
C8_GenericDefaults ==
    NoCheckMatched =>
        /\ GenericOutput
        /\ HeaderWord(P_PLAYADDR) = (scan0.g.loadaddr + 3) % 65536

\* C8 witness: no check matched although one of them, returning 0, had
\* overwritten the play address on its way
C8_Witness ==
    /\ NoCheckMatched
    /\ \E x \in 0..(Len(ScanFunc) - 1) :
          /\ Standalone(x).ret = 0
          /\ Standalone(x).g.playaddr # scan0.g.playaddr

\* C9: no check function and neither fixfc4stack nor fixsklstack reads or
\* writes the payload at an index outside [0, N).
C9_ChecksStayInPayload == bad = {}

\* C10: after a successful run the output file is the 124-byte header, then
\* extrabytes[0..extra), then p[0..fsiz), and it starts with PSID or RSID.
C10_OutputLayout ==
    Succeeded =>
        /\ outfile = globals.psidh
                     \o SubSeq(globals.extrabytes, 1, globals.extra)
                     \o [n \in 1..globals.fsiz |-> Peek(globals, heap, n - 1)]
        /\ SubSeq(outfile, 1, 4) \in {<<80, 83, 73, 68>>, <<82, 83, 73, 68>>}

\* the low 16 bits of the int v
Low16(v) == v % 65536

\* C11: in the output of a successful run header bytes $0A-$0B hold the low
\* 16 bits of the init address the scan left and $0C-$0D those of the play
\* address, high byte first, also when the value is negative or above $FFFF;
\* the two bytes behind the header hold the load address, low byte first.
C11_HeaderByteOrder ==
    Succeeded =>
        /\ outfile[10 + 1] = Low16(globals.initaddr) \div 256
        /\ outfile[11 + 1] = Low16(globals.initaddr) % 256
        /\ outfile[12 + 1] = Low16(globals.playaddr) \div 256
        /\ outfile[13 + 1] = Low16(globals.playaddr) % 256
        /\ Len(outfile) >= 124 + 2 =>
              /\ outfile[124 + 1] = globals.loadaddr % 256
              /\ outfile[124 + 2] = globals.loadaddr \div 256

\* C11 witness: a file was written whose play address does not fit 16 bits
\* and whose init address has different high and low bytes
C11_Witness ==
    /\ Succeeded
    /\ globals.playaddr > 65535
    /\ outfile[10 + 1] # outfile[11 + 1]
    /\ Len(outfile) >= 124 + 2

\* the effective load address: prepend[0..1] when two or more bytes are
\* prepended, prepend[0] | payload[0]<<8 when one is, else L
EffectiveLoad ==
    IF globals.extra >= 2 THEN globals.extrabytes[1] + 256 * globals.extrabytes[2]
    ELSE IF globals.extra = 1 THEN globals.extrabytes[1] + 256 * Peek(globals, heap, 0)
    ELSE scan0.g.loadaddr

\* the number of payload bytes in the output file
WrittenPayloadLen == Len(outfile) - 124 - globals.extra

\* C12: with A the effective load address, a successful run writes the whole
\* payload when payload_len + A + prepend_len - 2 <= $10000 and otherwise as
\* many bytes as make A + prepend_len + written - 2 = $10000; the written
\* image never extends past $10000.
C12_TruncatedToFit ==
    Succeeded =>
        LET A == EffectiveLoad
            N == scan0.g.fsiz
            E == globals.extra
            W == WrittenPayloadLen
        IN  /\ (N + A + E - 2 <= 65536) => (W = N)
            /\ (N + A + E - 2 > 65536) => (A + E + W - 2 = 65536)
            /\ A + E + W - 2 <= 65536

\* byte n of the input file
FileByte(n) == IF n \in DOMAIN infile.bytes THEN infile.bytes[n] ELSE 0

\* "PSID" and "RSID"
Magics == {<<80, 83, 73, 68>>, <<82, 83, 73, 68>>}

\* the input file begins with "PSID" or "RSID"
InputHasMagic ==
    /\ infile.exists
    /\ infile.size >= 4
    /\ <<FileByte(0), FileByte(1), FileByte(2), FileByte(3)>> \in Magics

C14_ExitCodes ==
    proc.pc = "exit" =>
        /\ proc.exit_code =
              IF argv.argc < 2 THEN 1
              ELSE IF ~infile.exists THEN 2
              ELSE IF proc.realp = "none" THEN 3
              ELSE IF proc.hout = "none"
                   THEN (IF AlreadySid(globals, heap) THEN 2 ELSE 4)
              ELSE 0
        /\ proc.exit_code # 0 => outfile = <<>>
        /\ proc.exit_code = 0 =>
              /\ SubSeq(outfile, 1, 124) = globals.psidh
              /\ \A n \in 1..globals.fsiz :
                    outfile[124 + globals.extra + n] = Peek(globals, heap, n - 1)

\* C14 witness: the allocation failed for a file that begins with the magic
\* and main returned 3, not 2
C14_Witness ==
    /\ proc.pc = "exit"
    /\ proc.exit_code = 3
    /\ InputHasMagic

\* main has parsed its arguments and called Scanners
Parsed == proc.pc \in {"scan", "write", "killed"} \/ Succeeded

\* the load address in the first two bytes of the input file
FileLoadAddr == FileByte(0) + 256 * FileByte(1)

\* the load_addr argument lies in the open interval (L, L + N - 2)
InTrimRange ==
    /\ argv.load_addr.value > FileLoadAddr
    /\ argv.load_addr.value < FileLoadAddr + infile.size - 2

\* the payload handed to Scanners is the input cut at its head to j
TrimmedToArgument ==
    LET j == argv.load_addr.value
        k == j - FileLoadAddr
    IN  /\ scan0.g.loadaddr = j
        /\ scan0.g.fsiz = infile.size - k
        /\ scan0.g.p = k
        /\ Peek(scan0.g, Heap0, 0) = j % 256
        /\ Peek(scan0.g, Heap0, 1) = j \div 256
        /\ \A n \in 2..(scan0.g.fsiz - 1) : Peek(scan0.g, Heap0, n) = FileByte(n + k)

\* the payload handed to Scanners is the input as it was read
NotTrimmed ==
    /\ scan0.g.loadaddr = FileLoadAddr
    /\ scan0.g.fsiz = infile.size
    /\ scan0.g.p = 0
    /\ \A n \in 0..(infile.size - 1) : Peek(scan0.g, Heap0, n) = FileByte(n)

\* C18 as stated: when a load_addr argument is given and its value j lies
\* in (L, L + N - 2), the first j - L bytes are dropped, the load address and
\* the embedded load word become j and the length shrinks by j - L;
\* otherwise L, N and the payload stay as they are.
C18_Trim_AsStated ==
    (Parsed /\ infile.size >= 2) =>
        IF argv.argc > 2 /\ InTrimRange THEN TrimmedToArgument ELSE NotTrimmed

\* C18: the same for a load_addr argument of more than two characters; an
\* argument of one or two characters is ignored whatever its value.
C18_Trim ==
    (Parsed /\ infile.size >= 2) =>
        IF argv.argc > 2 /\ argv.load_addr.len > 2 /\ InTrimRange
        THEN TrimmedToArgument ELSE NotTrimmed

\* C18 witness: an argument inside the interval has cut the payload
C18_Witness ==
    /\ Parsed
    /\ argv.argc > 2
    /\ argv.load_addr.len > 2
    /\ InTrimRange
    /\ scan0.g.p > 0
    /\ scan0.g.fsiz < infile.size

\* C19 (p2s): an input file of fewer than 2 bytes makes p2s stop with a
\* nonzero exit code and without output.
C19_ShortInputRejected ==
    (proc.pc = "exit" /\ argv.argc >= 2 /\ infile.exists /\ infile.size < 2) =>
        /\ proc.exit_code # 0
        /\ outfile = <<>>

\* C20: when main returns, the input and output handles that were opened
\* are closed and the buffer, if it was allocated, is freed.
C20_ResourcesReleased ==
    proc.pc = "exit" =>
        /\ proc.h \in {"none", "closed"}
        /\ proc.hout \in {"none", "closed"}
        /\ proc.realp \in {"none", "freed"}
        /\ (argv.argc >= 2 /\ infile.exists) => proc.h = "closed"
        /\ proc.exit_code \in {0, 2, 4} /\ infile.exists => proc.realp = "freed"
        /\ proc.exit_code = 0 => proc.hout = "closed"

\* C20 witness: the output could not be created after the input was read
C20_Witness ==
    /\ proc.pc = "exit"
    /\ proc.exit_code = 4
    /\ proc.h = "closed"
    /\ proc.realp = "freed"
    /\ proc.hout = "none"

\* the run has ended: main returned or the process was killed
Ended == proc.pc \in {"exit", "killed"}

\* p2s was started with the input file as its only argument, the buffer
\* was allocated and the output file was created
PlainRun == argv.argc = 2 /\ infile.exists /\ proc.exit_code \notin {3, 4}

\* C22: every run on an input of 2 <= N < $100 bytes that does not start
\* with PSID or RSID ends with exit code 0 after every check returned 0, with
\* the identity "Generic", init = L, play = L + 3 and an output that is the
\* 124-byte header followed by the N input bytes.
C22_ShortInputGeneric ==
    (Ended /\ PlainRun /\ infile.size >= 2 /\ infile.size < 256 /\ ~InputHasMagic) =>
        /\ NoCheckMatched
        /\ GenericOutput
        /\ globals.initaddr = FileLoadAddr
        /\ globals.playaddr = FileLoadAddr + 3
        /\ Len(outfile) = 124 + infile.size
        /\ \A n \in 1..infile.size : outfile[124 + n] = FileByte(n - 1)

\* the input carries the signature Chk_FC looks for
FcInput ==
    /\ infile.size >= 512
    /\ FileByte(2) = 76
    /\ FileByte(8) = 173
    /\ FileByte(15) = 201
    /\ FileByte(11) = 201
    /\ BitAnd(FileByte(12), 240) = 0
    /\ FileByte(13) = 240
    /\ FileByte(14) = 7

\* the identities that begin with "FutureComposer"
FutureComposerIds ==
    {"FutureComposer" \o v \o f : v \in {"", " 4.0", " 4.1"}, f \in {"", " (fixed)"}}
    \cup {"FutureComposer (altered)"}

\* C23: every run on an input of at least $200 bytes with the FutureComposer
\* signature ends with exit code 0, an identity that begins with
\* "FutureComposer", init = L and play = L + 6, whatever the other bytes are.
C23_FutureComposer ==
    (Ended /\ PlainRun /\ FcInput) =>
        /\ Succeeded
        /\ globals.ids \in FutureComposerIds
        /\ globals.initaddr = FileLoadAddr
        /\ globals.playaddr = FileLoadAddr + 6

\* the four input bytes from offset off, lowest address first
FileDword(off) == <<FileByte(off), FileByte(off + 1), FileByte(off + 2), FileByte(off + 3)>>

\* the 0-based position of the check named f in ScanFunc
IndexOf(f) == (CHOOSE n \in 1..Len(ScanFunc) : ScanFunc[n] = f) - 1

\* the input of the scenario: L = $6000, at least $2B00 bytes, and the three
\* words of the RockMon3h signature at $C000, $C020 and $C029
RockMon3hInput ==
    /\ FileLoadAddr = 24576
    /\ infile.size >= 11008
    /\ infile.size >= 49193 - 24576 + 2 + 4
    /\ FileDword(49152 - 24576 + 2) = <<76, 18, 192, 76>>
    /\ FileDword(49184 - 24576 + 2) = <<165, 1, 141, 197>>
    /\ FileDword(49193 - 24576 + 2) = <<32, 225, 203, 173>>

\* no check in front of Chk_Soundmon matches the input
NoneBeforeSoundmon == \A x \in WouldMatch : x >= IndexOf("Chk_Soundmon")

\* the output the scenario expects
RockMon3hOutput ==
    /\ Succeeded
    /\ SubSeq(outfile, 1, 4) = <<82, 83, 73, 68>>
    /\ HeaderWord(P_INITADDR) = 52784
    /\ HeaderWord(P_PLAYADDR) = 0
    /\ globals.ids = "DUSAT/RockMon3h"
    /\ outfile[P_FREEPAGE + 1] = 8
    /\ outfile[P_FREEPMAX + 1] = 88

\* C21 as stated: every run on a PRG with L = $6000, a length of at least
\* $2B00 and the three signature words, on which no earlier check matches,
\* writes an RSID with Init $CE30, Play 0, identity "DUSAT/RockMon3h",
\* start page 8 and page length $58.
C21_RockMon3h_AsStated ==
    (Ended /\ PlainRun /\ RockMon3hInput /\ NoneBeforeSoundmon) => RockMon3hOutput

\* C21: every run on a PRG with L = $6000, a length above $6B00 and the
\* three signature words, on which no earlier check matches, writes an RSID
\* with Init $CE30, Play 0, identity "DUSAT/RockMon3h", start page 8 and
\* page length $58.
C21_RockMon3h ==
    (Ended /\ PlainRun /\ RockMon3hInput /\ NoneBeforeSoundmon /\ infile.size > 27392)
        => RockMon3hOutput

\* C21 witness: such a run has written its file
C21_Witness ==
    /\ Succeeded /\ PlainRun /\ RockMon3hInput /\ NoneBeforeSoundmon
    /\ infile.size > 27392
    /\ Len(outfile) = 124 + infile.size

\* the values the check functions give to extra, and its initial 0
ExtraValues == {0, 1, 2, 4, 5, 6, 7, 13, Len(aPatchDblTrk), 2 + Len(aPatchMssiah)}

C30_PrependAddress ==
    (proc.pc = "write" /\ Break(scanners.z) /\ globals.extra # 0) =>
        FinalLoadAddr(globals, heap) + globals.extra = globals.loadaddr

\* the written file starts with RSID
RsidWritten == Succeeded /\ SubSeq(outfile, 1, 4) = <<82, 83, 73, 68>>

\* C29: every output whose magic is RSID has the play address 0 in its
\* header, and a check that returns a match with the marker set to 'R'
\* returns with playaddr = 0.
C29_RsidPlayZero ==
    /\ RsidWritten => HeaderWord(P_PLAYADDR) = 0 /\ globals.playaddr = 0
    /\ (proc.pc = "write" /\ Break(scanners.z) /\ globals.psidh[P_MARKER + 1] = 82)
           => globals.playaddr = 0

\* C29 witness: an RSID written after Chk_QuantumSndTrk, the last check of
\* the list, matched
C29_Witness ==
    /\ RsidWritten
    /\ scanners.x = IndexOf("Chk_QuantumSndTrk")
    /\ globals.initaddr = 2061

\* the indirection probes Chk_4JMPS performs when Scanners calls it now
ProbesNow == Chk_4JMPS_Trace(globals, heap).probes

\* Scanners is about to call the check named f
AboutToCall(f) == proc.pc = "scan" /\ ~Break(scanners.z) /\ scanners.x = IndexOf(f)

\* C24: every offset j that Chk_4JMPS derives from a pointer of the payload
\* with AdjustJ has passed the test 0 <= j < fsiz of CheckJ before a payload
\* byte at an offset based on j is read; a j that fails the test is not used
\* for a read.
C24_ProbesTested ==
    AboutToCall("Chk_4JMPS") =>
        \A n \in DOMAIN ProbesNow :
            ProbesNow[n].read =>
                ProbesNow[n].tested /\ ~CheckJ(ProbesNow[n].j, globals.fsiz)

\* the matching check, run on its own right after the initialisation of
\* Scanners
Alone == Standalone(scanners.x)

\* C25: the init and play addresses the matching check leaves for the header
\* are those it produces when it runs directly after the initialisation
\* initaddr = loadaddr, playaddr = loadaddr + 3 of Scanners.
C25_MatchSeesDefaults ==
    (proc.pc = "write" /\ Break(scanners.z) /\ Alone.ret # 0) =>
        /\ globals.initaddr = Alone.g.initaddr
        /\ globals.playaddr = Alone.g.playaddr

\* ------------------------------------------------------------------------
\* Properties of sf2pack's main, C64Memory and PSIDFile
\* ------------------------------------------------------------------------

\* longest address range of the export round trips
MaxSpan == 4

\* main of sf2pack has got past LoadFromPRG
Sf2Loaded ==
    \/ sf2main.pc \in {"pack", "write"}
    \/ sf2main.pc = "exit" /\ ParseArguments(cmdline).ok

\* the input file is long enough for main to hand it to LoadFromPRG
Sf2Loadable == sf2_file.exists /\ Len(sf2_file.bytes) >= 3

\* bytes 0-1 of the input file as a little-endian address
Sf2LoadAddress == sf2_file.bytes[1] + 256 * sf2_file.bytes[2]

\* the memories LoadFromPRG is applied to: cleared, and with bytes at the top
LoadBases == {ClearedMemory, Place(ClearedMemory, 65534, <<9, 8>>)}

\* LoadFromPRG on memory m does what the claim says for the PRG prg
LoadsAsStated(m, prg) ==
    LET L == prg[1] + 256 * prg[2]
        n == Len(prg) - 2
        r == LoadFromPRG(m, prg)
    IN  IF L + n <= 65536
        THEN /\ r.ok
             /\ \A i \in 0..(n - 1) : GetByte(r.m, L + i) = prg[3 + i]
             /\ \A a \in (DOMAIN m \cup DOMAIN r.m) \ (L..(L + n - 1)) :
                   GetByte(r.m, a) = GetByte(m, a)
        ELSE /\ ~r.ok
             /\ r.m = m

\* C15: LoadFromPRG takes bytes 0-1 as the little-endian load address L and
\* copies the other prg_size - 2 bytes to L, L+1, ... when they end at or
\* below 0x10000; otherwise it returns false and leaves the memory as it
\* was, and sf2pack returns 1 without having started Pack or written a file.
C15_LoadFromPRG ==
    (Sf2Loaded /\ Sf2Loadable) =>
        /\ \A m \in LoadBases : LoadsAsStated(m, sf2_file.bytes)
        /\ IF Sf2LoadAddress + Len(sf2_file.bytes) - 2 > 65536
           THEN /\ sf2main.pc = "exit"
                /\ sf2main.exit_code = 1
                /\ ~sid_file.exists
                /\ pack_pc = "idle"
           ELSE /\ pack_pc # "idle"
                /\ \A i \in 0..(Len(sf2_file.bytes) - 3) :
                      GetByte(input_memory, Sf2LoadAddress + i) = sf2_file.bytes[3 + i]

\* C15 witness: a PRG that ends one byte above 0xFFFF has been refused
C15_Witness ==
    /\ Sf2Loaded
    /\ Sf2Loadable
    /\ Sf2LoadAddress + Len(sf2_file.bytes) - 2 = 65537
    /\ sf2main.pc = "exit"
    /\ sf2main.exit_code = 1

\* exporting [top, bottom) of m and loading the PRG into a cleared memory
\* gives back m on [top, bottom) and nothing else
RoundTrip(m, top, bottom) ==
    LET prg == ExportToPRG(m, top, bottom)
        r == LoadFromPRG(ClearedMemory, prg)
    IN  /\ Len(prg) = bottom - top + 2
        /\ prg[1] = top % 256
        /\ prg[2] = top \div 256
        /\ r.ok
        /\ \A a \in top..(bottom - 1) : GetByte(r.m, a) = GetByte(m, a)
        /\ DOMAIN r.m \subseteq top..(bottom - 1)

\* the tops of the ranges exported from the working copy
ExportTops == {0, config.driver_code_top, config.destination_address, 65531}

\* the source window and the destination window of Pack do not overlap
WindowsApart ==
    \/ config.destination_address = config.driver_code_top
    \/ config.destination_address + data_size <= config.driver_code_top
    \/ config.driver_code_top + data_size <= config.destination_address

TargetGiven ==
    IF \E i \in 4..(Len(cmdline) - 1) : cmdline[i] = "--address"
    THEN LET i == CHOOSE i \in 4..(Len(cmdline) - 1) : cmdline[i] = "--address"
         IN  Numerals[cmdline[i + 1]] % 65536
    ELSE 4096

\* C17: the file sf2pack writes is a 124 byte header with the magic 'PSID',
\* load address field 0, init address = target + 0 and play address =
\* (target + 3) mod 0x10000, both high byte first, followed by Pack's PRG,
\* whose first two bytes are the target address low byte first.
C17_PsidLayout ==
    (sf2main.pc = "exit" /\ sf2main.exit_code = 0) =>
        LET out == sid_file.bytes
            target == TargetGiven
            play == (target + 3) % 65536
        IN  /\ sid_file.exists
            /\ Len(out) = 124 + Len(packed_data)
            /\ SubSeq(out, 1, 4) = <<80, 83, 73, 68>>
            /\ out[6 + 1] = 0 /\ out[7 + 1] = 124
            /\ out[8 + 1] = 0 /\ out[9 + 1] = 0
            /\ out[10 + 1] = target \div 256
            /\ out[11 + 1] = target % 256
            /\ out[12 + 1] = play \div 256
            /\ out[13 + 1] = play % 256
            /\ SubSeq(out, 124 + 1, Len(out)) = packed_data
            /\ out[124 + 1] = target % 256
            /\ out[124 + 2] = target \div 256

\* C17 witness: a file written for a target address given with --address
C17_Witness ==
    /\ sf2main.pc = "exit"
    /\ sf2main.exit_code = 0
    /\ sid_file.exists
    /\ TargetGiven # 4096
    /\ options.address = TargetGiven
    /\ Len(sid_file.bytes) > 124 + 2
====
